---- MODULE Spec2Model ----
(***************************************************************************)
(* Payment Tracker (src/app.py): the ledger normaliser                     *)
(* clean_payments_data, the totals and the per-client table of             *)
(* generate_html_summary, and the form handlers of the app body.           *)
(*                                                                         *)
(*   Spec         a raw ledger is cleaned, cleaned again, summarised, and  *)
(*                summarised in two parts                                  *)
(*   SpecClients  a ledger and an expenses file give the per-client table  *)
(*   SpecApp      the script runs of a session: init_files, then the       *)
(*                handler of a form                                        *)
(*                                                                         *)
(* A string is a sequence of one-character strings, so that str.strip,     *)
(* str.lower and whole-cell replace are computed as Python computes them.  *)
(* A DataFrame cell is a record [k, s, n]:                                 *)
(*   k = "str"  a Python str, s its characters                             *)
(*   k = "num"  a number (int64 / float64), n its value (whole numbers)    *)
(*   k = "nan"  float NaN          k = "none"  Python None                 *)
(*   k = "ts"   a Timestamp, n = year*10000 + month*100 + day              *)
(*   k = "nat"  NaT                                                        *)
(* A DataFrame is [cols, recs]: the set of its column names and the        *)
(* sequence of its rows, each [idx |-> index label, row |-> column->cell]. *)
(***************************************************************************)
EXTENDS Integers, Sequences, FiniteSets, TLC

VARIABLES df, cleaned, recleaned, totals, parts, pc,
          ledger,                \* payments.csv, as pd.read_csv gives it
          people,                \* people.csv: the sequence of its lines
          client_expenses,       \* client_expenses.csv: the sequence of its rows
          editing,               \* st.session_state: editing_row_idx, temp_edit_data
          last,                  \* what the last script run did
          summary_by_client_df,  \* the per-client table of the last summary
          balances,              \* the sidebar's "Current Balances" of the last run
          repo,                  \* the git repository at REPO_PATH and its remote
          expense_file,          \* client_expenses.csv: its header line and its lines
          view,                  \* tab2: the filters chosen and the rows displayed
          sessions,              \* two browser sessions, each inside Add Transaction
          tab1                   \* st.session_state of tab1: direction and person

ledgervars == <<df, cleaned, recleaned, totals, parts, balances>>

\* the state of the parts of the app that have a specification of their own
restvars == <<repo, expense_file, view, sessions, tab1>>

appvars == <<ledger, people, editing, last>>

vars == <<df, cleaned, recleaned, totals, parts, pc, ledger, people, client_expenses,
          editing, last, summary_by_client_df, balances, restvars>>

(***************************************************************************)
(* Bounds of the model.                                                    *)
(***************************************************************************)
MaxRows == 2

(***************************************************************************)
(* Python str primitives.                                                  *)
(***************************************************************************)
Whitespace == {" ", "\t"}

UpperAlpha == <<"A","B","C","D","E","F","G","H","I","J","K","L","M",
                "N","O","P","Q","R","S","T","U","V","W","X","Y","Z">>

LowerAlpha == <<"a","b","c","d","e","f","g","h","i","j","k","l","m",
                "n","o","p","q","r","s","t","u","v","w","x","y","z">>

DigitChars == <<"0","1","2","3","4","5","6","7","8","9">>

SetMin(S) == CHOOSE x \in S : \A y \in S : x <= y

SetMax(S) == CHOOSE x \in S : \A y \in S : x >= y

LowerChar(c) ==
    IF \E i \in 1..26 : UpperAlpha[i] = c
    THEN LowerAlpha[CHOOSE i \in 1..26 : UpperAlpha[i] = c]
    ELSE c

\* str.lower()
Lower(s) == [i \in 1..Len(s) |-> LowerChar(s[i])]

\* str.strip(): leading and trailing whitespace removed, inner whitespace kept
Strip(s) ==
    LET keep == {i \in 1..Len(s) : s[i] \notin Whitespace}
    IN  IF keep = {} THEN <<>> ELSE SubSeq(s, SetMin(keep), SetMax(keep))

IsDigit(c) == \E i \in 1..10 : DigitChars[i] = c

DigitVal(c) == (CHOOSE i \in 1..10 : DigitChars[i] = c) - 1

RECURSIVE DigitsValue(_)
DigitsValue(s) ==
    IF s = <<>> THEN 0
    ELSE DigitsValue(SubSeq(s, 1, Len(s) - 1)) * 10 + DigitVal(s[Len(s)])

RECURSIVE DigitsOf(_)
DigitsOf(n) ==
    IF n < 10 THEN <<DigitChars[n + 1]>>
    ELSE DigitsOf(n \div 10) \o <<DigitChars[(n % 10) + 1]>>

\* n written with at least w digits (zero padded)
PadDigits(n, w) ==
    LET d == DigitsOf(n)
    IN  [i \in 1..(IF Len(d) < w THEN w - Len(d) ELSE 0) |-> "0"] \o d

(***************************************************************************)
(* String literals of the program.                                         *)
(***************************************************************************)
S_empty == <<>>
S_nan == <<"n","a","n">>
S_None == <<"N","o","n","e">>
S_NaT == <<"N","a","T">>
S_cash == <<"c","a","s","h">>
S_cheque == <<"c","h","e","q","u","e">>
S_completed == <<"c","o","m","p","l","e","t","e","d">>
S_pending == <<"p","e","n","d","i","n","g">>
S_received_given == <<"r","e","c","e","i","v","e","d","/","g","i","v","e","n">>
S_processing == <<"p","r","o","c","e","s","s","i","n","g">>
S_bounced == <<"b","o","u","n","c","e","d">>
S_processing_done == S_processing \o <<" ","d","o","n","e">>
S_paid_to_me == <<"p","a","i","d","_","t","o","_","m","e">>
S_i_paid == <<"i","_","p","a","i","d">>

\* src/app.py:65-66
valid_cheque_statuses_lower ==
    {S_received_given, S_processing, S_bounced, S_processing_done}

valid_transaction_statuses_lower == {S_completed, S_pending}

\* src/app.py:73
cols_to_check ==
    {"payment_method", "cheque_status", "transaction_status", "reference_number",
     "date", "amount", "person", "type", "status", "description"}

(***************************************************************************)
(* Cells.                                                                  *)
(***************************************************************************)
StrCell(s) == [k |-> "str", s |-> s, n |-> 0]
NumCell(n) == [k |-> "num", s |-> <<>>, n |-> n]
NanCell == [k |-> "nan", s |-> <<>>, n |-> 0]
NoneCell == [k |-> "none", s |-> <<>>, n |-> 0]
TsCell(n) == [k |-> "ts", s |-> <<>>, n |-> n]
NatCell == [k |-> "nat", s |-> <<>>, n |-> 0]

\* repr of a float64 holding a whole number: 1500.0
FloatStr(n) ==
    (IF n < 0 THEN <<"-">> ELSE <<>>)
        \o DigitsOf(IF n < 0 THEN 0 - n ELSE n) \o <<".", "0">>

\* str of a Timestamp at midnight, as Series.astype(str) gives it: 2024-03-01
DateStr(n) ==
    PadDigits(n \div 10000, 4) \o <<"-">> \o PadDigits((n \div 100) % 100, 2)
        \o <<"-">> \o PadDigits(n % 100, 2)

\* Series.astype(str), cell by cell
AsTypeStr(c) ==
    CASE c.k = "str" -> c.s
      [] c.k = "num" -> FloatStr(c.n)
      [] c.k = "nan" -> S_nan
      [] c.k = "none" -> S_None
      [] c.k = "ts" -> DateStr(c.n)
      [] c.k = "nat" -> S_NaT

\* Series.replace(old, new): a cell is replaced when it equals old as a whole
ReplaceWhole(s, old, new) == IF s = old THEN new ELSE s

\* src/app.py:77  .astype(str).replace('nan', '').replace('None', '').str.strip()
NormalizeText(c) ==
    Strip(ReplaceWhole(ReplaceWhole(AsTypeStr(c), S_nan, S_empty), S_None, S_empty))

(***************************************************************************)
(* pd.to_numeric / pd.to_datetime with errors='coerce', cell by cell.      *)
(* The amounts of the model are whole numbers: a numeral is an optional    *)
(* sign, digits and an optional fraction of zeros ("1500", "-5", "400.0"). *)
(* The dates of the model are ISO calendar dates YYYY-MM-DD.               *)
(***************************************************************************)
IsNumeral(s) ==
    LET body == IF s # <<>> /\ s[1] = "-" THEN Tail(s) ELSE s
        dots == {i \in 1..Len(body) : body[i] = "."}
        ip == IF dots = {} THEN body ELSE SubSeq(body, 1, SetMin(dots) - 1)
        fp == IF dots = {} THEN <<>> ELSE SubSeq(body, SetMin(dots) + 1, Len(body))
    IN  /\ ip # <<>>
        /\ \A i \in 1..Len(ip) : IsDigit(ip[i])
        /\ \A i \in 1..Len(fp) : fp[i] = "0"

NumeralValue(s) ==
    LET neg == s # <<>> /\ s[1] = "-"
        body == IF neg THEN Tail(s) ELSE s
        dots == {i \in 1..Len(body) : body[i] = "."}
        ip == IF dots = {} THEN body ELSE SubSeq(body, 1, SetMin(dots) - 1)
    IN  IF neg THEN 0 - DigitsValue(ip) ELSE DigitsValue(ip)

\* src/app.py:79  pd.to_numeric(..., errors='coerce').fillna(0.0)
ToNumeric(s) == IF IsNumeral(s) THEN NumCell(NumeralValue(s)) ELSE NumCell(0)

DaysInMonth(y, m) ==
    IF m \in {4, 6, 9, 11} THEN 30
    ELSE IF m # 2 THEN 31
    ELSE IF (y % 4 = 0 /\ y % 100 # 0) \/ y % 400 = 0 THEN 29 ELSE 28

IsIsoDate(s) ==
    /\ Len(s) = 10
    /\ s[5] = "-" /\ s[8] = "-"
    /\ \A i \in {1, 2, 3, 4, 6, 7, 9, 10} : IsDigit(s[i])
    /\ LET y == DigitsValue(SubSeq(s, 1, 4))
           m == DigitsValue(SubSeq(s, 6, 7))
           d == DigitsValue(SubSeq(s, 9, 10))
       IN  m \in 1..12 /\ d \in 1..DaysInMonth(y, m)

\* src/app.py:80  pd.to_datetime(..., errors='coerce')
ToDatetime(s) ==
    IF IsIsoDate(s)
    THEN TsCell(DigitsValue(SubSeq(s, 1, 4)) * 10000
                + DigitsValue(SubSeq(s, 6, 7)) * 100 + DigitsValue(SubSeq(s, 9, 10)))
    ELSE NatCell

(***************************************************************************)
(* clean_payments_data, src/app.py:69-110.                                 *)
(***************************************************************************)
\* TextOf with a slip: the created column holds None and is never coerced
TextOf_CreatedAsNone(cols, row, col) ==
    IF col \in cols THEN NormalizeText(row[col]) ELSE S_None

\* lines 74-77: a column the frame lacks is created holding '', then every
\* checked column is coerced to stripped text
TextOf(cols, row, col) ==
    IF col \in cols THEN NormalizeText(row[col]) ELSE NormalizeText(StrCell(S_empty))

\* lines 82-83: cheque_status of cash rows is blanked before the row loop
CashMask(payment_method, cheque_status) ==
    IF Lower(payment_method) = S_cash THEN S_empty ELSE cheque_status

\* RepairTransactionStatus with a slip: the word from reference_number always wins
RepairTransactionStatus_Overwrite(reference_number, transaction_status) ==
    IF Lower(reference_number) \in valid_transaction_statuses_lower
    THEN Lower(reference_number)
    ELSE transaction_status

\* lines 91-93: transaction_status after the status-in-reference repair
RepairTransactionStatus(reference_number, transaction_status) ==
    IF /\ Lower(reference_number) \in valid_transaction_statuses_lower
       /\ Lower(transaction_status) \notin valid_transaction_statuses_lower
    THEN Lower(reference_number)
    ELSE transaction_status

\* lines 95-97: cheque_status after the status-in-reference repair
RepairChequeStatus(reference_number, payment_method, cheque_status) ==
    IF /\ Lower(reference_number) \notin valid_transaction_statuses_lower
       /\ Lower(reference_number) \in valid_cheque_statuses_lower
       /\ Lower(payment_method) = S_cheque
       /\ Lower(cheque_status) \notin valid_cheque_statuses_lower
    THEN Lower(reference_number)
    ELSE cheque_status

\* RepairReferenceNumber with a slip: the status word is copied but left in place
RepairReferenceNumber_NotBlanked(reference_number, payment_method) == reference_number

\* lines 91, 94, 95, 98: reference_number after the repair
RepairReferenceNumber(reference_number, payment_method) ==
    IF Lower(reference_number) \in valid_transaction_statuses_lower
    THEN S_empty
    ELSE IF /\ Lower(reference_number) \in valid_cheque_statuses_lower
            /\ Lower(payment_method) = S_cheque
         THEN S_empty
         ELSE reference_number

\* DefaultTransactionStatus with a slip: an invalid value is left as it is
DefaultTransactionStatus_NoDefault(transaction_status) == transaction_status

\* lines 100-101
DefaultTransactionStatus(transaction_status) ==
    IF Lower(transaction_status) \notin valid_transaction_statuses_lower
    THEN S_completed
    ELSE transaction_status

\* FinalChequeStatus with a slip: the default is applied whatever the method
FinalChequeStatus_AnyMethod(payment_method, cheque_status) ==
    IF Lower(cheque_status) \notin valid_cheque_statuses_lower
    THEN S_processing
    ELSE cheque_status

\* FinalChequeStatus with a slip: an invalid cheque status of a cheque row is kept
FinalChequeStatus_NoDefault(payment_method, cheque_status) ==
    IF Lower(payment_method) = S_cheque THEN cheque_status ELSE S_empty

\* lines 103-107
FinalChequeStatus(payment_method, cheque_status) ==
    IF Lower(payment_method) = S_cheque
    THEN IF Lower(cheque_status) \notin valid_cheque_statuses_lower
         THEN S_processing
         ELSE cheque_status
    ELSE S_empty

\* lines 74-107 on one row of a frame with columns cols
CleanRow(cols, row) ==
    LET t == [c \in cols_to_check |-> TextOf(cols, row, c)]
        cs1 == CashMask(t.payment_method, t.cheque_status)
        ts1 == RepairTransactionStatus(t.reference_number, t.transaction_status)
        cs2 == RepairChequeStatus(t.reference_number, t.payment_method, cs1)
    IN  [c \in cols_to_check |->
            CASE c = "amount" -> ToNumeric(t.amount)
              [] c = "date" -> ToDatetime(t.date)
              [] c = "reference_number" ->
                    StrCell(RepairReferenceNumber(t.reference_number, t.payment_method))
              [] c = "transaction_status" -> StrCell(DefaultTransactionStatus(ts1))
              [] c = "cheque_status" -> StrCell(FinalChequeStatus(t.payment_method, cs2))
              [] OTHER -> StrCell(t[c])]

\* IsBlankRow with a slip: the person is not looked at
IsBlankRow_IgnoresPerson(row) ==
    /\ row.date.k = "nat"
    /\ row.amount.k = "num" /\ row.amount.n = 0

\* line 109: the rows the final mask removes
IsBlankRow(row) ==
    /\ row.date.k = "nat"
    /\ row.person = StrCell(S_empty)
    /\ row.amount.k = "num" /\ row.amount.n = 0

\* line 109: df[~mask] keeps the other rows, in order, with their index labels
RECURSIVE DropBlankRows(_)
DropBlankRows(recs) ==
    IF recs = <<>> THEN <<>>
    ELSE IF IsBlankRow(Head(recs).row) THEN DropBlankRows(Tail(recs))
         ELSE <<Head(recs)>> \o DropBlankRows(Tail(recs))

\* lines 69-110
clean_payments_data(d) ==
    IF d.recs = <<>> THEN d
    ELSE LET done == [i \in 1..Len(d.recs) |->
                        [idx |-> d.recs[i].idx, row |-> CleanRow(d.cols, d.recs[i].row)]]
         IN  [cols |-> d.cols \cup cols_to_check, recs |-> DropBlankRows(done)]

(***************************************************************************)
(* generate_html_summary, the totals: src/app.py:239-272.                  *)
(***************************************************************************)
RECURSIVE SumSeq(_)
SumSeq(s) == IF s = <<>> THEN 0 ELSE Head(s) + SumSeq(Tail(s))

\* the columns the totals read by name: a frame lacking one raises KeyError,
\* which the handler at line 1227 turns into the result False
NeededForTotals == {"amount", "date", "type", "payment_method", "transaction_status"}

\* lines 243-247: df_for_totals
ForTotals(d) ==
    [i \in 1..Len(d.recs) |->
        [amount |-> ToNumeric(AsTypeStr(d.recs[i].row.amount)).n,
         type |-> Lower(AsTypeStr(d.recs[i].row.type)),
         payment_method |-> Lower(AsTypeStr(d.recs[i].row.payment_method)),
         transaction_status |-> Lower(AsTypeStr(d.recs[i].row.transaction_status))]]

\* lines 252, 255: df[df['type'] == ty]['amount'].sum()
TypeSum(ft, ty) ==
    SumSeq([i \in 1..Len(ft) |-> IF ft[i].type = ty THEN ft[i].amount ELSE 0])

\* PendingSum with a slip: the status restriction is missing
PendingSum_AnyStatus(ft, ty) ==
    SumSeq([i \in 1..Len(ft) |-> IF ft[i].type = ty THEN ft[i].amount ELSE 0])

\* lines 253-254, 256-257: the same, restricted to transaction_status == 'pending'
PendingSum(ft, ty) ==
    SumSeq([i \in 1..Len(ft) |->
              IF ft[i].type = ty /\ ft[i].transaction_status = S_pending
              THEN ft[i].amount ELSE 0])

\* CrossTab with a slip: a cell whose method column is absent is given the whole
\* amount of its direction
CrossTab_AbsentIsRowTotal(ft, ty, pm) ==
    SumSeq([i \in 1..Len(ft) |->
              IF /\ ft[i].type = ty
                 /\ \/ ft[i].payment_method = pm
                    \/ ~ \E k \in 1..Len(ft) : ft[k].payment_method = pm
              THEN ft[i].amount ELSE 0])

\* line 249: groupby(['type', 'payment_method'])['amount'].sum().unstack().fillna(0),
\* then lines 258-269: a cell is read when its row label and its column label exist
CrossTab(ft, ty, pm) ==
    IF /\ \E i \in 1..Len(ft) : ft[i].payment_method = pm
       /\ \E i \in 1..Len(ft) : ft[i].type = ty
    THEN SumSeq([i \in 1..Len(ft) |->
                   IF ft[i].type = ty /\ ft[i].payment_method = pm
                   THEN ft[i].amount ELSE 0])
    ELSE 0

\* NetBalance with a slip: the two sums are added
NetBalance_Added(ft) == TypeSum(ft, S_paid_to_me) + TypeSum(ft, S_i_paid)

\* lines 270-271
NetBalance(ft) == TypeSum(ft, S_paid_to_me) - TypeSum(ft, S_i_paid)

NoTotals ==
    [ok |-> FALSE, total_received |-> 0, pending_received |-> 0, total_paid |-> 0,
     pending_paid |-> 0, cash_received |-> 0, cheque_received |-> 0,
     cash_paid |-> 0, cheque_paid |-> 0, net_balance |-> 0]

\* lines 214-218, called at line 242: on a frame with no rows DataFrame.apply(axis=1)
\* cannot call the lambda (its probe row holds NaN, which has no .lower) and gives
\* back a copy of the whole frame; storing that many-column frame in the one column
\* cheque_status_cleaned raises ValueError
prepare_dataframe_for_display_raises(d) == d.recs = <<>>

\* lines 241-247 and 1227-1230: an exception in the function makes it return False
summary_fails(d) ==
    \/ ~(NeededForTotals \subseteq d.cols)
    \/ prepare_dataframe_for_display_raises(d)

\* lines 241-272 and 1227-1230
generate_html_summary(d) ==
    IF summary_fails(d) THEN NoTotals
    ELSE LET ft == ForTotals(d)
         IN  [ok |-> TRUE,
              total_received |-> TypeSum(ft, S_paid_to_me),
              pending_received |-> PendingSum(ft, S_paid_to_me),
              total_paid |-> TypeSum(ft, S_i_paid),
              pending_paid |-> PendingSum(ft, S_i_paid),
              cash_received |-> CrossTab(ft, S_paid_to_me, S_cash),
              cheque_received |-> CrossTab(ft, S_paid_to_me, S_cheque),
              cash_paid |-> CrossTab(ft, S_i_paid, S_cash),
              cheque_paid |-> CrossTab(ft, S_i_paid, S_cheque),
              net_balance |-> NetBalance(ft)]

(***************************************************************************)
(* The raw ledgers the normaliser is run on.                               *)
(***************************************************************************)
S_Bob == <<"B","o","b">>
S_R1 == <<"R","1">>
S_x == <<"x">>
S_date == <<"2","0","2","4","-","0","3","-","0","1">>
S_baddate == <<"2","0","2","4","-","0","2","-","3","0">>
S_1500 == <<"1","5","0","0">>
S_400 == <<"4","0","0">>
S_0 == <<"0">>

\* s with whitespace before and after
Padded(s) == <<" ">> \o s \o <<"\t", " ">>

UpperFirst(s) ==
    [i \in 1..Len(s) |->
        IF i = 1 /\ \E j \in 1..26 : LowerAlpha[j] = s[1]
        THEN UpperAlpha[CHOOSE j \in 1..26 : LowerAlpha[j] = s[1]]
        ELSE s[i]]

BaseRow ==
    [date |-> StrCell(S_date), person |-> StrCell(S_Bob), amount |-> StrCell(S_1500),
     type |-> StrCell(S_paid_to_me), status |-> StrCell(S_empty),
     description |-> StrCell(S_empty), payment_method |-> StrCell(S_cash),
     reference_number |-> StrCell(S_empty), cheque_status |-> StrCell(S_empty),
     transaction_status |-> StrCell(S_empty)]

MethodValues == {S_cash, Padded(UpperFirst(S_cash)), S_cheque, UpperFirst(S_cheque), S_empty}
ChequeStatusValues == {S_empty, S_bounced, UpperFirst(S_bounced), S_x}
StatusValues == {S_empty, S_pending, UpperFirst(S_pending), Padded(S_pending), S_x}
ReferenceValues ==
    {S_empty, S_completed, UpperFirst(S_pending), S_bounced, S_processing_done,
     S_R1, Padded(S_nan)}

\* rows that vary the four fields of the status logic
StatusRows ==
    {[BaseRow EXCEPT !.payment_method = StrCell(pm), !.cheque_status = StrCell(cs),
                     !.transaction_status = StrCell(ts), !.reference_number = StrCell(ref)] :
        pm \in MethodValues, cs \in ChequeStatusValues,
        ts \in StatusValues, ref \in ReferenceValues}

DateValues == {StrCell(S_empty), StrCell(S_date), StrCell(S_x), StrCell(S_baddate)}
PersonValues ==
    {StrCell(S_empty), StrCell(S_Bob), StrCell(Padded(S_nan)), StrCell(S_nan),
     StrCell(Padded(S_None)), NanCell, NoneCell}
AmountValues ==
    {StrCell(S_empty), StrCell(S_0), StrCell(S_1500), StrCell(S_x),
     StrCell(<<"-">> \o S_400), NumCell(400), NumCell(0), NanCell}

\* rows that vary the three fields of the blank-row test
BlankishRows ==
    {[BaseRow EXCEPT !.date = d, !.person = p, !.amount = a] :
        d \in DateValues, p \in PersonValues, a \in AmountValues}

TypeValues ==
    {S_paid_to_me, S_i_paid, Lower(S_i_paid) \o <<" ">>, <<"I","_","P","A","I","D">>, S_empty}
DescriptionValues == {S_empty, S_None, Padded(S_None), <<"a"," ","b">>}

\* rows that vary the free text and the direction
TextRows ==
    {[BaseRow EXCEPT !.type = StrCell(ty), !.description = StrCell(de), !.status = StrCell(st)] :
        ty \in TypeValues, de \in DescriptionValues, st \in {S_empty, Padded(S_nan)}}

\* the rows of the ledgers of more than one row
LedgerRows ==
    {BaseRow,
     [BaseRow EXCEPT !.type = StrCell(S_i_paid), !.payment_method = StrCell(S_cheque),
                     !.amount = StrCell(S_400), !.transaction_status = StrCell(S_pending),
                     !.reference_number = StrCell(S_R1)],
     [BaseRow EXCEPT !.date = StrCell(S_empty), !.person = StrCell(S_empty),
                     !.amount = StrCell(S_0)],
     [BaseRow EXCEPT !.date = StrCell(S_empty), !.amount = StrCell(S_empty)],
     [BaseRow EXCEPT !.payment_method = StrCell(S_cheque), !.amount = NumCell(1000),
                     !.transaction_status = StrCell(UpperFirst(S_pending)),
                     !.reference_number = StrCell(S_bounced)],
     [BaseRow EXCEPT !.type = StrCell(<<"I","_","P","A","I","D">>), !.amount = StrCell(<<"2","5","0">>),
                     !.reference_number = StrCell(S_pending)],
     [BaseRow EXCEPT !.date = StrCell(S_empty), !.person = StrCell(Padded(S_nan)),
                     !.amount = StrCell(S_0)],
     [BaseRow EXCEPT !.type = StrCell(S_empty), !.payment_method = StrCell(S_empty),
                     !.amount = StrCell(<<"7">>)]}

\* the sets of columns a raw frame may lack
AbsentColumns ==
    {{}} \cup {{c} : c \in cols_to_check}
         \cup {{"payment_method", "transaction_status"}, {"date", "person", "amount"}}

RowSeqs == UNION {[1..n -> LedgerRows] : n \in 0..MaxRows}

RawRowSeqs == RowSeqs \cup {<<r>> : r \in StatusRows \cup BlankishRows \cup TextRows}

\* pd.read_csv: rows get the index labels 0, 1, ... and hold the frame's columns
Frame(rows, absent) ==
    [cols |-> cols_to_check \ absent,
     recs |-> [i \in 1..Len(rows) |->
                 [idx |-> i - 1,
                  row |-> [c \in cols_to_check \ absent |-> rows[i][c]]]]]

NoFrame == [cols |-> {}, recs |-> <<>>]

NoParts == [A |-> NoTotals, B |-> NoTotals, labels |-> {}]

\* df[mask]: the rows whose index label is in labels, labels and order kept
FilterRows(d, labels) ==
    [cols |-> d.cols, recs |-> SelectSeq(d.recs, LAMBDA r : r.idx \in labels)]

\* the index labels of a frame
Labels(d) == {d.recs[i].idx : i \in 1..Len(d.recs)}

(***************************************************************************)
(* The ledger file as the form handlers read and write it.                 *)
(***************************************************************************)
AllColumns == cols_to_check

\* DataFrame.to_csv(index=False) and the next pd.read_csv(CSV_FILE,
\* dtype={'reference_number': str}, keep_default_na=False), cell by cell: a date is
\* written as text, a missing value as the empty field, which is read back as ''.
\* (No text column of the ledgers here holds only numerals, so none is read as numbers.)
CsvCell(c) ==
    CASE c.k = "ts" -> StrCell(DateStr(c.n))
      [] c.k \in {"nat", "nan", "none"} -> StrCell(S_empty)
      [] OTHER -> c

\* the file written from frame d, as read_csv gives it back: labels 0, 1, ...
to_csv_read_csv(d) ==
    [cols |-> d.cols,
     recs |-> [i \in 1..Len(d.recs) |->
                 [idx |-> i - 1,
                  row |-> [c \in d.cols |-> CsvCell(d.recs[i].row[c])]]]]

\* the header-only file init_files creates (lines 114-119)
EmptyLedger == [cols |-> AllColumns, recs |-> <<>>]

S_none == <<"n","o","n","e">>

\* the lambda applied to reference_number after every read (lines 1538-1540,
\* 1564-1566, 1821-1823, ...)
ReferenceLambda(c) ==
    IF c.k \in {"nan", "none", "nat"} THEN S_empty
    ELSE LET s == Strip(AsTypeStr(c))
         IN  IF Lower(s) \in {S_nan, S_none} THEN S_empty ELSE s

\* pd.read_csv(CSV_FILE, ...) followed by that lambda
read_ledger(file) ==
    [cols |-> file.cols,
     recs |-> [i \in 1..Len(file.recs) |->
                 [idx |-> file.recs[i].idx,
                  row |-> [c \in file.cols |->
                             IF c = "reference_number"
                             THEN StrCell(ReferenceLambda(file.recs[i].row[c]))
                             ELSE file.recs[i].row[c]]]]]

\* the reference numbers of a frame, in row order
ReferenceValuesOf(d) == [i \in 1..Len(d.recs) |-> d.recs[i].row.reference_number.s]

\* lines 1541 and 1826: the frame has rows and one of them holds the reference
IsDuplicateReference(d, reference) ==
    /\ d.recs # <<>>
    /\ \E i \in 1..Len(d.recs) : ReferenceValuesOf(d)[i] = reference

\* pd.DataFrame([new_row]).to_csv(CSV_FILE, mode='a', header=False, index=False),
\* line 1561, and the read of line 1563
AppendRow(file, new_row) ==
    [cols |-> file.cols,
     recs |-> Append(file.recs,
                     [idx |-> Len(file.recs),
                      row |-> [c \in file.cols |-> CsvCell(new_row[c])]])]

\* lines 1563-1568, 1851-1855, 1966-1970, 2319-2322: read, normalise the
\* references, clean
read_and_clean(file) == clean_payments_data(read_ledger(file))

(***************************************************************************)
(* The sidebar's "Current Balances", src/app.py:2264-2313.                 *)
(***************************************************************************)
NoBalances ==
    [shown |-> FALSE, rec |-> 0, paid |-> 0, cash_rec |-> 0, cheque_rec |-> 0,
     cash_paid |-> 0, cheque_paid |-> 0]

\* lines 2285-2287: df_bal with amount made numeric, type and method lower-cased
BalanceRows(d) ==
    [i \in 1..Len(d.recs) |->
        [amount |-> ToNumeric(AsTypeStr(d.recs[i].row.amount)).n,
         type |-> Lower(AsTypeStr(d.recs[i].row.type)),
         payment_method |-> Lower(AsTypeStr(d.recs[i].row.payment_method))]]

\* MethodSum with a slip: the rows of no method are counted as cash
MethodSum_BlankIsCash(rows, ty, pm) ==
    SumSeq([i \in 1..Len(rows) |->
              IF /\ rows[i].type = ty
                 /\ \/ rows[i].payment_method = pm
                    \/ pm = S_cash /\ rows[i].payment_method = S_empty
              THEN rows[i].amount ELSE 0])

\* lines 2291-2294: df_bal[(type == ty) & (payment_method == pm)]['amount'].sum()
MethodSum(rows, ty, pm) ==
    SumSeq([i \in 1..Len(rows) |->
              IF rows[i].type = ty /\ rows[i].payment_method = pm
              THEN rows[i].amount ELSE 0])

\* lines 2266-2313: the ledger file is read and cleaned once more; a frame with
\* no rows shows "No transactions yet.", a frame lacking a column read by name
\* raises KeyError, which line 2312 turns into an error message
sidebar_balances(file) ==
    LET df_bal == read_and_clean(file)
        rows == BalanceRows(df_bal)
    IN  IF \/ ~({"amount", "type", "payment_method"} \subseteq df_bal.cols)
           \/ df_bal.recs = <<>>
        THEN NoBalances
        ELSE [shown |-> TRUE,
              rec |-> TypeSum(rows, S_paid_to_me),
              paid |-> TypeSum(rows, S_i_paid),
              cash_rec |-> MethodSum(rows, S_paid_to_me, S_cash),
              cheque_rec |-> MethodSum(rows, S_paid_to_me, S_cheque),
              cash_paid |-> MethodSum(rows, S_i_paid, S_cash),
              cheque_paid |-> MethodSum(rows, S_i_paid, S_cheque)]

(***************************************************************************)
(* The Add Transaction form, src/app.py:1451-1586.                         *)
(***************************************************************************)
S_Select == <<"S","e","l","e","c","t",".",".",".">>

\* line 1463
CategoryOf(selected_transaction_type) ==
    IF selected_transaction_type = "Paid to Me" THEN "investor" ELSE "client"

S_NA == <<"N","A">>

\* some of the texts pd.read_csv reads as a missing value when keep_default_na is
\* left at its default
DefaultNaValues == {S_empty, S_NA, S_nan}

\* one text field of a file read by pd.read_csv(file) with no further argument
\* (no name of the model is a numeral, so no column is read as numbers)
read_csv_default(s) == IF s \in DefaultNaValues THEN NanCell ELSE StrCell(s)

\* pd.read_csv(PEOPLE_FILE)['name'].astype(str), lines 1459-1468, 1877-1879,
\* 2081-2082, 2100
NamesOf(ppl) == [i \in 1..Len(ppl) |-> AsTypeStr(read_csv_default(ppl[i].name))]

\* lines 140-147: init_files rewrites the people file with its names as text
init_files_people(ppl) ==
    [i \in 1..Len(ppl) |-> [name |-> NamesOf(ppl)[i], category |-> ppl[i].category]]

\* lines 1462-1468: the people of the direction's category, after "Select..."
person_options(ppl, selected_transaction_type) ==
    {S_Select} \cup
        {NamesOf(ppl)[i] : i \in {k \in 1..Len(ppl) :
                                    ppl[k].category = CategoryOf(selected_transaction_type)}}

\* ReferenceWarning with a slip: a reference number is asked of cheques only
ReferenceWarning_ChequeOnly(payment_method, reference_number) ==
    IF Strip(reference_number) = S_empty /\ payment_method = S_cheque
    THEN {"Reference Number is REQUIRED for cheque transactions."}
    ELSE {}

\* lines 1527-1534 and 1808-1817: an empty reference number is warned about, in
\* words that depend on the payment method, and fails the validation either way
ReferenceWarning(payment_method, reference_number) ==
    IF Strip(reference_number) # S_empty THEN {}
    ELSE IF payment_method = S_cheque
         THEN {"Reference Number is REQUIRED for cheque transactions."}
         ELSE {"Reference Number is required."}

\* DuplicateWarning with a slip: the reference is compared as typed, untrimmed
DuplicateWarning_AsTyped(others, reference_number) ==
    IF IsDuplicateReference(others, reference_number)
    THEN {"Duplicate Reference Number found"} ELSE {}

\* lines 1536-1546 and 1819-1831: the trimmed reference is looked up among the
\* references of the rows read from the file
DuplicateWarning(others, reference_number) ==
    IF IsDuplicateReference(others, Strip(reference_number))
    THEN {"Duplicate Reference Number found"} ELSE {}

\* lines 1519-1546: the warnings of a submitted Add Transaction form
AddWarnings(file, f) ==
    (IF f.selected_person = S_Select THEN {"Please select a valid person."} ELSE {})
    \cup (IF f.amount.n <= 0 THEN {"Amount must be greater than 0."} ELSE {})
    \cup ReferenceWarning(f.payment_method, f.reference_number)
    \cup DuplicateWarning(read_ledger(file), f.reference_number)

\* validation_passed with a slip: a duplicate reference does not stop the handler
validation_passed_DespiteDuplicate(warnings) ==
    warnings \subseteq {"Duplicate Reference Number found"}

\* lines 1519-1548: validation_passed stays True when no check has warned
validation_passed(warnings) == warnings = {}

\* lines 1550-1560
new_row(f) ==
    [date |-> StrCell(S_date),
     person |-> StrCell(f.selected_person),
     amount |-> f.amount,
     type |-> StrCell(IF f.selected_transaction_type = "Paid to Me"
                      THEN S_paid_to_me ELSE S_i_paid),
     status |-> StrCell(f.status),
     description |-> StrCell(S_empty),
     payment_method |-> StrCell(f.payment_method),
     reference_number |-> StrCell(Strip(f.reference_number)),
     cheque_status |-> IF f.payment_method = S_cheque
                       THEN StrCell(f.cheque_status) ELSE NoneCell,
     transaction_status |-> StrCell(f.status)]

\* AddPublish with a slip: a failed push is tried once more
AddPublish_Retried(html_generated, git_ok) ==
    IF ~html_generated THEN <<>>
    ELSE IF git_ok THEN <<TRUE>> ELSE <<FALSE, FALSE>>

\* lines 1571-1574: the results of the handler's calls of git_push, in order;
\* git_push is called once, and only when the summary was generated
AddPublish(html_generated, git_ok) ==
    IF html_generated THEN <<git_ok>> ELSE <<>>

\* lines 1856-1857 and 1973-1974: git_push is called once, whatever
\* generate_html_summary returned
AlwaysPublish(git_ok) == <<git_ok>>

(***************************************************************************)
(* The edit form, src/app.py:1707-1868.                                    *)
(***************************************************************************)
\* editing_row_idx is None and temp_edit_data is empty
NoEdit == [idx |-> -1, type |-> S_empty, reference_number |-> S_empty]

\* existing_df.drop(editing_row_idx, errors='ignore'), line 1824
DropLabel(d, idx) == FilterRows(d, Labels(d) \ {idx})

\* lines 1804-1831: the warnings of a submitted edit form
EditWarnings(file, idx, f) ==
    (IF f.amount.n <= 0 THEN {"Amount must be greater than 0."} ELSE {})
    \cup ReferenceWarning(f.payment_method, f.reference_number)
    \cup DuplicateWarning(DropLabel(read_ledger(file), idx), f.reference_number)

\* lines 1835-1846: the row stored over the edited one; the direction is the one
\* loaded when the row was selected
edited_row(f, type) ==
    [date |-> StrCell(S_date),
     person |-> StrCell(f.selected_person),
     amount |-> f.amount,
     type |-> StrCell(type),
     status |-> StrCell(f.status),
     description |-> StrCell(S_empty),
     payment_method |-> StrCell(f.payment_method),
     reference_number |-> StrCell(Strip(f.reference_number)),
     cheque_status |-> IF f.payment_method = S_cheque
                       THEN StrCell(f.cheque_status) ELSE NoneCell,
     transaction_status |-> StrCell(f.status)]

\* SetRow with a slip: the row is added at the end whether the label exists or not
SetRow_Appended(d, idx, row) ==
    [cols |-> d.cols,
     recs |-> Append(d.recs, [idx |-> idx, row |-> [c \in d.cols |-> row[c]]])]

\* df.loc[editing_row_idx] = {...}, line 1835: the row with that label is
\* replaced; a label the frame lacks is added at the end
SetRow(d, idx, row) ==
    IF idx \in Labels(d)
    THEN [cols |-> d.cols,
          recs |-> [i \in 1..Len(d.recs) |->
                      IF d.recs[i].idx = idx
                      THEN [idx |-> idx, row |-> [c \in d.cols |-> row[c]]]
                      ELSE d.recs[i]]]
    ELSE [cols |-> d.cols,
          recs |-> Append(d.recs, [idx |-> idx, row |-> [c \in d.cols |-> row[c]]])]

(***************************************************************************)
(* Client expenses and the per-client summary, src/app.py:277-318 and      *)
(* 1891-1978; the people file, src/app.py:2066-2113.                       *)
(***************************************************************************)
\* lines 280 and 287: pd.to_numeric(..., errors='coerce') with fillna(0.0) for the
\* unit price and fillna(1.0) for the quantity
ExpenseAmount(e) == ToNumeric(AsTypeStr(e.expense_amount)).n

ExpenseQuantity(e) ==
    LET s == AsTypeStr(e.expense_quantity)
    IN  IF IsNumeral(s) THEN NumeralValue(s) ELSE 1

\* total_line_amount with a slip: the quantity is left out
total_line_amount_UnitPrice(e) == ExpenseAmount(e)

\* line 290
total_line_amount(e) == ExpenseAmount(e) * ExpenseQuantity(e)

\* lines 294-296: the amounts of the i_paid rows, grouped by person
total_paid_to_clients(d) ==
    LET ft == ForTotals(d)
        paid == {i \in 1..Len(ft) : ft[i].type = S_i_paid}
    IN  [name \in {d.recs[i].row.person.s : i \in paid} |->
            SumSeq([i \in 1..Len(ft) |->
                      IF i \in paid /\ d.recs[i].row.person.s = name
                      THEN ft[i].amount ELSE 0])]

\* lines 300-302: the line amounts of the expenses, grouped by expense_person
total_spent_by_clients(exps) ==
    [name \in {AsTypeStr(exps[i].expense_person) : i \in 1..Len(exps)} |->
        SumSeq([i \in 1..Len(exps) |->
                  IF AsTypeStr(exps[i].expense_person) = name
                  THEN total_line_amount(exps[i]) ELSE 0])]

\* lines 304-318: the outer merge on client_name, missing sides filled with 0,
\* and the remaining balance
summary_by_client(d, exps) ==
    LET paid == total_paid_to_clients(d)
        spent == total_spent_by_clients(exps)
    IN  [name \in (DOMAIN paid) \cup (DOMAIN spent) |->
            LET p == IF name \in DOMAIN paid THEN paid[name] ELSE 0
                sp == IF name \in DOMAIN spent THEN spent[name] ELSE 0
            IN  [total_paid_to_client |-> p,
                 total_spent_by_client |-> sp,
                 remaining_balance |-> p - sp]]

NoSummary == [ok |-> FALSE, rows |-> <<>>]

\* the per-client table of generate_html_summary(d): none when the function fails
\* before reaching it
client_summary(d, exps) ==
    IF generate_html_summary(d).ok
    THEN [ok |-> TRUE, rows |-> summary_by_client(d, exps)]
    ELSE NoSummary

\* lines 1930-1941: the warnings of a submitted client expense form
ExpenseWarnings(f) ==
    (IF f.selected_client = S_Select THEN {"Please select a client."} ELSE {})
    \cup (IF f.expense_amount.n <= 0
          THEN {"Expense amount (unit price) must be greater than 0."} ELSE {})
    \cup (IF f.expense_quantity.n <= 0
          THEN {"Quantity must be greater than 0."} ELSE {})

\* lines 1954-1962
new_expense_row(f) ==
    [expense_person |-> StrCell(f.selected_client),
     expense_amount |-> f.expense_amount,
     expense_quantity |-> f.expense_quantity]

\* lines 1877-1879
client_options(ppl) ==
    {S_Select} \cup {NamesOf(ppl)[i] : i \in {k \in 1..Len(ppl) : ppl[k].category = "client"}}

\* lines 2074-2083: a name is refused when empty or when some person has the same
\* name up to letter case
PersonWarnings(ppl, name) ==
    IF Strip(name) = S_empty THEN {"Name is required."}
    ELSE IF \E i \in 1..Len(ppl) : Lower(NamesOf(ppl)[i]) = Lower(Strip(name))
         THEN {"Person already exists."} ELSE {}

\* lines 2103-2106: the person is named by a row of the ledger
HasTransactions(file, to_del) ==
    \E i \in 1..Len(file.recs) : AsTypeStr(file.recs[i].row.person) = to_del

\* lines 2108-2109: the lines of another name are written back, a missing name as
\* the empty field
delete_person(ppl, to_del) ==
    LET keep == SelectSeq([i \in 1..Len(ppl) |->
                              [name |-> read_csv_default(ppl[i].name),
                               category |-> ppl[i].category]],
                          LAMBDA r : AsTypeStr(r.name) # to_del)
    IN  [i \in 1..Len(keep) |->
            [name |-> CsvCell(keep[i].name).s, category |-> keep[i].category]]

(***************************************************************************)
(* client_expenses.csv by position: the header is a sequence of column     *)
(* names, a line a sequence of cells; pandas reads a line's k-th field     *)
(* into the k-th column of the header.                                     *)
(***************************************************************************)
\* lines 150-153: the header init_files writes for a new file
ExpenseColumns ==
    <<"original_transaction_ref_num", "expense_date", "expense_person",
      "expense_category", "expense_amount", "expense_quantity", "expense_description">>

\* the header of a file written before expense_quantity existed (the case of
\* lines 158-161)
LegacyExpenseColumns ==
    <<"original_transaction_ref_num", "expense_date", "expense_person",
      "expense_category", "expense_amount", "expense_description">>

FreshExpenseFile == [header |-> ExpenseColumns, lines |-> <<>>]

ColumnNames(file) == {file.header[k] : k \in 1..Len(file.header)}

\* pd.read_csv(CLIENT_EXPENSES_FILE, ..., keep_default_na=False): line i as a row
\* keyed by the header's column names
ExpenseRowOf(file, i) ==
    [c \in ColumnNames(file) |->
        file.lines[i][CHOOSE k \in 1..Len(file.header) : file.header[k] = c]]

read_expenses(file) == [i \in 1..Len(file.lines) |-> ExpenseRowOf(file, i)]

\* lines 163-171: one cell of column c as init_files normalises and writes it
NormalExpenseCell(c, cell) ==
    CASE c \in {"original_transaction_ref_num", "expense_person", "expense_category",
                "expense_description"} -> StrCell(NormalizeText(cell))
      [] c = "expense_amount" -> ToNumeric(AsTypeStr(cell))
      [] c = "expense_quantity" ->
            (IF IsNumeral(AsTypeStr(cell)) THEN NumCell(NumeralValue(AsTypeStr(cell)))
             ELSE NumCell(1))
      [] OTHER -> CsvCell(ToDatetime(AsTypeStr(cell)))

\* lines 156-172: init_files on an existing file; a missing expense_quantity
\* column is added with the value 1.0, as the last column of the frame, and the
\* frame is written back with its columns in that order
init_files_expenses(file) ==
    LET has == "expense_quantity" \in ColumnNames(file)
        header == IF has THEN file.header ELSE Append(file.header, "expense_quantity")
        rows == read_expenses(file)
    IN  [header |-> header,
         lines |-> [i \in 1..Len(file.lines) |->
                      [k \in 1..Len(header) |->
                          IF header[k] \in ColumnNames(file)
                          THEN NormalExpenseCell(header[k], rows[i][header[k]])
                          ELSE NumCell(1)]]]

S_General == <<"G","e","n","e","r","a","l">>

\* lines 1954-1963: the values of new_expense_row in the order of the dict, which
\* to_csv(mode='a', header=False) writes as one line whatever the file's header is
new_expense_line(header, f) ==
    <<StrCell(S_empty), StrCell(S_date), StrCell(f.selected_client), StrCell(S_General),
      f.expense_amount, f.expense_quantity, StrCell(f.expense_description)>>

(***************************************************************************)
(* View Transactions, src/app.py:1588-1672: the filters and the total.     *)
(***************************************************************************)
S_All == <<"A","l","l">>

\* Series.str.contains(pat) with its default regex=True, for a pattern made of
\* literal characters and of '.', which matches any one character: re.search
\* finds the pattern at some offset of the text
str_contains(text, pat) ==
    \E o \in 0..(Len(text) - Len(pat)) :
        \A k \in 1..Len(pat) : pat[k] = "." \/ pat[k] = text[o + k]

\* line 1633: the values the type filter compares, through .map(...)
TypeLabel(type) ==
    CASE type = S_paid_to_me -> "Received"
      [] type = S_i_paid -> "Paid"
      [] OTHER -> "NaN"

\* the options of the method and of the status filter, lower-cased (lines 1635,
\* 1637-1640)
FilterWord(option) ==
    CASE option = "Cash" -> S_cash
      [] option = "Cheque" -> S_cheque
      [] option = "Completed" -> S_completed
      [] option = "Pending" -> S_pending
      [] option = "Received/Given" -> S_received_given
      [] option = "Processing" -> S_processing
      [] option = "Bounced" -> S_bounced
      [] option = "Processing Done" -> S_processing_done
      [] OTHER -> S_empty

\* lines 1632-1649: the row passes every active filter
PassesFilters(row, f) ==
    /\ f.view_filter # "All" => TypeLabel(AsTypeStr(row.type)) = f.view_filter
    /\ f.method_filter # "All" =>
          Lower(AsTypeStr(row.payment_method)) = FilterWord(f.method_filter)
    /\ f.status_filter # "All" =>
          IF FilterWord(f.status_filter) \in valid_transaction_statuses_lower
          THEN Lower(AsTypeStr(row.transaction_status)) = FilterWord(f.status_filter)
          ELSE FilterWord(f.status_filter) \in valid_cheque_statuses_lower =>
                  Lower(AsTypeStr(row.cheque_status)) = FilterWord(f.status_filter)
    /\ f.view_person_filter # S_All => row.person = StrCell(f.view_person_filter)
    /\ f.view_reference_number_search # S_empty =>
          str_contains(Lower(AsTypeStr(row.reference_number)),
                       Lower(f.view_reference_number_search))

NoFilters ==
    [view_filter |-> "All", method_filter |-> "All", status_filter |-> "All",
     view_person_filter |-> S_All, view_reference_number_search |-> S_empty]

NoView == [filters |-> NoFilters, shown |-> {}, total |-> 0, raised |-> FALSE]

\* lines 1591-1672: the file is read and cleaned, filtered, prepared for display
\* (which raises on a frame without rows, lines 214-218; line 1870 reports it) and
\* shown with the sum of its amounts
view_transactions(file, f) ==
    LET d == read_and_clean(file)
        temp_filtered_df ==
            FilterRows(d, {d.recs[i].idx : i \in {k \in 1..Len(d.recs) :
                                                    PassesFilters(d.recs[k].row, f)}})
    IN  IF prepare_dataframe_for_display_raises(temp_filtered_df)
        THEN [filters |-> f, shown |-> {}, total |-> 0, raised |-> TRUE]
        ELSE [filters |-> f,
              shown |-> Labels(temp_filtered_df),
              total |-> SumSeq([i \in 1..Len(temp_filtered_df.recs) |->
                                 ToNumeric(AsTypeStr(temp_filtered_df.recs[i].row.amount)).n]),
              raised |-> FALSE]

(***************************************************************************)
(* git_push, src/app.py:180-198.  The content of the data files is a       *)
(* version number: worktree is what the handlers wrote, index what is      *)
(* staged, head the last local commit, origin the remote branch.           *)
(***************************************************************************)
MaxWrites == 6

NoRepo == [worktree |-> 0, index |-> 0, head |-> 0, origin |-> 0, result |-> "none"]

\* line 183: repo.is_dirty(untracked_files=True)
is_dirty(r) == r.worktree # r.index \/ r.index # r.head

\* lines 184-185: repo.git.add(update=True); repo.git.add(all=True)
git_add(r) == IF is_dirty(r) THEN [r EXCEPT !.index = r.worktree] ELSE r

\* line 187: repo.index.diff("HEAD")
index_diff_HEAD(r) == r.index # r.head

\* lines 181-198.  io is what the environment does to the call: "ok", "no repo"
\* (Repo(REPO_PATH) or a git command raises before the commit) or "push fails"
\* (origin.push() raises); the except clause returns False
git_push(r, io) ==
    IF io = "no repo" THEN [r EXCEPT !.result = "False"]
    ELSE LET staged == git_add(r)
         IN  IF ~index_diff_HEAD(staged) THEN [staged EXCEPT !.result = "True"]
             ELSE LET committed == [staged EXCEPT !.head = staged.index]
                  IN  IF io = "push fails" THEN [committed EXCEPT !.result = "False"]
                      ELSE [committed EXCEPT !.origin = committed.head,
                                             !.result = "True"]

\* a submitted form: its values and, for the edit form, the reference number
\* loaded into it when the row was selected
NoForm ==
    [payment_method |-> S_empty, selected_person |-> S_empty, amount |-> NoneCell,
     reference_number |-> S_empty, loaded_reference_number |-> S_empty]

\* what a script run did: the form it handled, the messages it showed, whether
\* the handler changed a data file, the outcome of its call of
\* generate_html_summary and the results of its calls of git_push
NoAction ==
    [action |-> "none", form |-> NoForm, messages |-> {}, accepted |-> FALSE,
     html |-> "not called", git |-> <<>>]

(***************************************************************************)
(* Add Transaction's file steps, src/app.py:1561-1568, for sessions that   *)
(* share the ledger file: Streamlit runs each session's script in its own  *)
(* thread and the code takes no lock.                                      *)
(***************************************************************************)
Sessions == {"s1", "s2"}

NoSessions ==
    [proc |-> [s \in Sessions |-> [at |-> "idle", form |-> NoForm, updated_df |-> NoFrame]],
     last_writer |-> "none"]

\* rewrite_file with a slip: the file is read again at the moment it is written
rewrite_file_Reread(file, updated_df) == to_csv_read_csv(read_and_clean(file))

\* line 1568: updated_df.to_csv(CSV_FILE, index=False) replaces the whole file by
\* the frame the session read at line 1563
rewrite_file(file, updated_df) == to_csv_read_csv(updated_df)

\* the parts of the app outside the running specification, before their first step
\* lines 1421-1423: the direction and the person of a session that has not used tab1;
\* dropped is the selection that lines 1469-1470 discarded last
NoTab1 ==
    [selected_transaction_type |-> "Paid to Me", selected_person |-> S_Select,
     dropped |-> S_Select]

RestAtRest ==
    /\ repo = NoRepo
    /\ expense_file = FreshExpenseFile
    /\ view = NoView
    /\ tab1 = NoTab1
    /\ sessions = NoSessions

\* the session and the files of the app before its first form is submitted:
\* init_files has created the three files, header only (lines 114-153)
AppAtRest ==
    /\ ledger = EmptyLedger
    /\ people = <<>>
    /\ editing = NoEdit
    /\ last = NoAction
    /\ balances = NoBalances
    /\ RestAtRest

(***************************************************************************)
(* The state machine: a raw frame is cleaned; the cleaned frame is cleaned *)
(* once more and summarised, and then summarised in two disjoint parts.    *)
(***************************************************************************)
Init ==
    /\ df \in {Frame(rows, absent) : rows \in RawRowSeqs, absent \in AbsentColumns}
    /\ cleaned = NoFrame
    /\ recleaned = NoFrame
    /\ totals = NoTotals
    /\ parts = NoParts
    /\ pc = "loaded"
    /\ AppAtRest
    /\ client_expenses = <<>>
    /\ summary_by_client_df = NoSummary

Clean ==
    /\ pc = "loaded"
    /\ cleaned' = clean_payments_data(df)
    /\ pc' = "cleaned"
    /\ UNCHANGED <<restvars, df, recleaned, totals, parts, balances, appvars, client_expenses, summary_by_client_df>>

CleanAgain ==
    /\ pc = "cleaned"
    /\ recleaned' = clean_payments_data(cleaned)
    /\ pc' = "recleaned"
    /\ UNCHANGED <<restvars, df, cleaned, totals, parts, balances, appvars, client_expenses, summary_by_client_df>>

Summarise ==
    /\ pc \in {"cleaned", "recleaned"}
    /\ totals' = generate_html_summary(cleaned)
    /\ pc' = "summarised"
    /\ UNCHANGED <<restvars, df, cleaned, recleaned, parts, balances, appvars, client_expenses, summary_by_client_df>>

\* generate_html_summary applied to a selection of the cleaned rows and to the rest
SummariseParts ==
    /\ pc = "summarised"
    /\ \E labels \in SUBSET Labels(cleaned) :
          parts' = [A |-> generate_html_summary(FilterRows(cleaned, labels)),
                    B |-> generate_html_summary(
                            FilterRows(cleaned, Labels(cleaned) \ labels)),
                    labels |-> labels]
    /\ pc' = "split"
    /\ UNCHANGED <<restvars, df, cleaned, recleaned, totals, balances, appvars, client_expenses, summary_by_client_df>>

Next == Clean \/ CleanAgain \/ Summarise \/ SummariseParts

Spec == Init /\ [][Next]_vars

(***************************************************************************)
(* The sidebar and the summary of one run over a cleaned ledger file.      *)
(***************************************************************************)
\* lines 2264-2323: the sidebar reads the ledger file and shows its balances, and
\* the run ends with generate_html_summary over the same file
ShowBalances ==
    /\ pc = "cleaned"
    /\ balances' = sidebar_balances(to_csv_read_csv(cleaned))
    /\ totals' = generate_html_summary(cleaned)
    /\ pc' = "summarised"
    /\ UNCHANGED <<restvars, df, cleaned, recleaned, parts, appvars, client_expenses,
                   summary_by_client_df>>

NextSidebar == Clean \/ ShowBalances

SpecSidebar == Init /\ [][NextSidebar]_vars

(***************************************************************************)
(* The per-client summary: a ledger and an expenses file are drawn, the    *)
(* ledger is cleaned and generate_html_summary builds the per-client table.*)
(***************************************************************************)
MaxClientRows == 2

S_Ann == <<"A","n","n">>
S_Cal == <<"C","a","l">>

ClientLedgerRows ==
    {[BaseRow EXCEPT !.type = StrCell(S_i_paid), !.amount = NumCell(400)],
     [BaseRow EXCEPT !.type = StrCell(S_i_paid), !.person = StrCell(S_Ann),
                     !.amount = NumCell(1000), !.payment_method = StrCell(S_cheque),
                     !.reference_number = StrCell(S_R1)],
     BaseRow,
     [BaseRow EXCEPT !.type = StrCell(<<"I","_","P","A","I","D">>),
                     !.person = StrCell(Padded(S_Bob)), !.amount = NumCell(250)]}

ExpenseRows ==
    {[expense_person |-> StrCell(S_Bob), expense_amount |-> NumCell(100),
      expense_quantity |-> NumCell(3)],
     [expense_person |-> StrCell(S_Bob), expense_amount |-> NumCell(500),
      expense_quantity |-> NumCell(1)],
     [expense_person |-> StrCell(S_Cal), expense_amount |-> NumCell(50),
      expense_quantity |-> StrCell(S_empty)],
     [expense_person |-> StrCell(S_Ann), expense_amount |-> StrCell(S_x),
      expense_quantity |-> NumCell(2)]}

InitClients ==
    /\ df \in {Frame(rows, {}) :
                rows \in UNION {[1..n -> ClientLedgerRows] : n \in 0..MaxClientRows}}
    /\ client_expenses \in UNION {[1..n -> ExpenseRows] : n \in 0..MaxClientRows}
    /\ cleaned = NoFrame
    /\ recleaned = NoFrame
    /\ totals = NoTotals
    /\ parts = NoParts
    /\ pc = "loaded"
    /\ AppAtRest
    /\ summary_by_client_df = NoSummary

\* generate_html_summary(df), lines 277-318, on the cleaned ledger
SummariseClients ==
    /\ pc = "cleaned"
    /\ summary_by_client_df' = client_summary(cleaned, client_expenses)
    /\ pc' = "clients"
    /\ UNCHANGED <<restvars, ledgervars, appvars, client_expenses>>

NextClients == Clean \/ SummariseClients

SpecClients == InitClients /\ [][NextClients]_vars

(***************************************************************************)
(* The app.  Every interaction is one run of the script: init_files at its *)
(* top (StartRun), then the handler of the submitted form or pressed       *)
(* button, or no handler at all (PageLoad).  The summary regenerated at    *)
(* the bottom of a run that handled a form (lines 2318-2323) touches none  *)
(* of the data files and is left out of the handler runs.                  *)
(***************************************************************************)
MaxLedgerRows == 2
MaxExpenses == 1
MaxPeople == 3

TransactionTypes == {"Paid to Me", "I Paid"}
Categories == {"investor", "client"}
NameInputs == {S_empty, Padded(S_Bob)}

\* the submitted Add Transaction forms, but for the direction and the person;
\* st.number_input gives None while nothing is typed
AddForms ==
    {[payment_method |-> S_cash, amount |-> NumCell(400),
      reference_number |-> Padded(S_R1), with_person |-> TRUE],
     [payment_method |-> S_cheque, amount |-> NumCell(400),
      reference_number |-> S_R1, with_person |-> TRUE],
     [payment_method |-> S_cash, amount |-> NumCell(400),
      reference_number |-> S_pending, with_person |-> TRUE],
     [payment_method |-> S_cash, amount |-> NumCell(400),
      reference_number |-> S_R1, with_person |-> FALSE],
     [payment_method |-> S_cheque, amount |-> NumCell(0),
      reference_number |-> S_R1, with_person |-> TRUE],
     [payment_method |-> S_cash, amount |-> NumCell(400),
      reference_number |-> S_empty, with_person |-> TRUE],
     [payment_method |-> S_cheque, amount |-> NumCell(400),
      reference_number |-> <<" ">>, with_person |-> TRUE],
     [payment_method |-> S_cash, amount |-> NoneCell,
      reference_number |-> S_R1, with_person |-> TRUE]}

\* the submitted edit forms
EditForms ==
    {[payment_method |-> S_cash, amount |-> NumCell(400),
      reference_number |-> Padded(S_R1)],
     [payment_method |-> S_cheque, amount |-> NumCell(1000),
      reference_number |-> S_R1],
     [payment_method |-> S_cash, amount |-> NumCell(400),
      reference_number |-> S_pending],
     [payment_method |-> S_cheque, amount |-> NumCell(0),
      reference_number |-> S_R1],
     [payment_method |-> S_cash, amount |-> NumCell(400),
      reference_number |-> S_empty]}

\* the submitted client expense forms, but for the client
ExpenseForms ==
    {[expense_amount |-> NumCell(100), expense_quantity |-> NumCell(3)],
     [expense_amount |-> NumCell(0), expense_quantity |-> NumCell(3)],
     [expense_amount |-> NumCell(100), expense_quantity |-> NumCell(0)]}

InitApp ==
    /\ AppAtRest
    /\ client_expenses = <<>>
    /\ summary_by_client_df = NoSummary
    /\ df = NoFrame
    /\ cleaned = NoFrame
    /\ recleaned = NoFrame
    /\ totals = NoTotals
    /\ parts = NoParts
    /\ pc = "idle"

\* the outcome of generate_html_summary(d): "generated" when the function computes
\* its tables and the environment lets it write the file, "failed" otherwise
HtmlOutcome(d, io_ok) == IF ~summary_fails(d) /\ io_ok THEN "generated" ELSE "failed"

\* line 178: a run starts with init_files, which cleans and rewrites the ledger
\* (lines 122-134) and rewrites the people file (lines 140-147)
StartRun ==
    /\ pc = "idle"
    /\ pc' = "running"
    /\ ledger' = to_csv_read_csv(read_and_clean(ledger))
    /\ people' = init_files_people(people)
    /\ last' = NoAction
    /\ UNCHANGED <<restvars, ledgervars, client_expenses, editing, summary_by_client_df>>

\* lines 2318-2323: a run with nothing submitted ends with generate_html_summary
PageLoad ==
    /\ pc = "running"
    /\ pc' = "idle"
    /\ \E io_ok \in BOOLEAN :
          last' = [NoAction EXCEPT !.action = "load",
                                   !.html = HtmlOutcome(read_and_clean(ledger), io_ok)]
    /\ UNCHANGED <<restvars, ledgervars, ledger, people, client_expenses, editing,
                   summary_by_client_df>>

\* lines 1518-1586, with the reset of lines 1440-1442 that follows an accepted form:
\* the form g is submitted for the direction ty with person as the selectbox's value
submit_add_transaction(ty, person, g) ==
    LET f == [selected_transaction_type |-> ty,
              payment_method |-> g.payment_method,
              selected_person |-> person, amount |-> g.amount,
              reference_number |-> g.reference_number,
              cheque_status |-> S_received_given, status |-> S_completed]
        form == [payment_method |-> f.payment_method,
                 selected_person |-> f.selected_person, amount |-> f.amount,
                 reference_number |-> f.reference_number,
                 loaded_reference_number |-> S_empty]
        warnings == AddWarnings(ledger, f)
    IN  IF f.amount.k = "none"
        THEN \* line 1523: None <= 0 raises TypeError and the run ends
             /\ last' = [NoAction EXCEPT !.action = "add", !.form = form,
                                         !.messages = {"TypeError"}]
             /\ UNCHANGED <<ledger, editing>>
        ELSE IF ~validation_passed(warnings)
        THEN /\ last' = [NoAction EXCEPT !.action = "add", !.form = form,
                                         !.messages = warnings]
             /\ UNCHANGED <<ledger, editing>>
        ELSE /\ Len(ledger.recs) < MaxLedgerRows
             /\ LET updated_df == read_and_clean(AppendRow(ledger, new_row(f)))
                IN  /\ ledger' = to_csv_read_csv(updated_df)
                    /\ \E io_ok \in BOOLEAN, git_ok \in BOOLEAN :
                         LET html == HtmlOutcome(updated_df, io_ok)
                         IN  last' = [action |-> "add", form |-> form,
                                      messages |-> warnings, accepted |-> TRUE,
                                      html |-> html,
                                      git |-> AddPublish(html = "generated",
                                                         git_ok)]
             /\ editing' = NoEdit

\* lines 1450-1586: the Add Transaction form is submitted
AddTransaction ==
    /\ pc = "running"
    /\ pc' = "idle"
    /\ \E ty \in TransactionTypes, g \in AddForms :
        \E person \in IF g.with_person
                      THEN person_options(people, ty) \ {S_Select} ELSE {S_Select} :
          submit_add_transaction(ty, person, g)
    /\ UNCHANGED <<restvars, ledgervars, people, client_expenses, summary_by_client_df>>

\* lines 1688-1705: a row of the history is chosen for editing and loaded into
\* temp_edit_data
SelectTransaction ==
    /\ pc = "running"
    /\ pc' = "idle"
    /\ LET current == read_and_clean(ledger)
       IN  \E i \in 1..Len(current.recs) :
             /\ editing.idx # current.recs[i].idx
             /\ editing' = [idx |-> current.recs[i].idx,
                            type |-> AsTypeStr(current.recs[i].row.type),
                            reference_number |->
                                ReferenceLambda(current.recs[i].row.reference_number)]
    /\ last' = [NoAction EXCEPT !.action = "select"]
    /\ UNCHANGED <<restvars, ledgervars, ledger, people, client_expenses, summary_by_client_df>>

\* lines 1804-1863: Save Changes
SaveChanges ==
    /\ pc = "running"
    /\ pc' = "idle"
    /\ editing # NoEdit
    /\ LET current == read_and_clean(ledger)
       IN  /\ editing.idx \in Labels(current)
           /\ \E g \in EditForms :
               LET old == (CHOOSE r \in {current.recs[i] : i \in 1..Len(current.recs)} :
                              r.idx = editing.idx).row
                   f == [payment_method |-> g.payment_method,
                         selected_person |-> AsTypeStr(old.person),
                         amount |-> g.amount,
                         reference_number |-> g.reference_number,
                         cheque_status |-> S_received_given, status |-> S_completed]
                   form == [payment_method |-> f.payment_method,
                            selected_person |-> f.selected_person,
                            amount |-> f.amount,
                            reference_number |-> f.reference_number,
                            loaded_reference_number |-> editing.reference_number]
                   warnings == EditWarnings(ledger, editing.idx, f)
               IN  IF ~validation_passed(warnings)
                   THEN /\ last' = [NoAction EXCEPT !.action = "edit", !.form = form,
                                                    !.messages = warnings]
                        /\ UNCHANGED <<ledger, editing>>
                   ELSE LET saved == to_csv_read_csv(
                                        SetRow(current, editing.idx,
                                               edited_row(f, editing.type)))
                            updated_df_after_edit == read_and_clean(saved)
                        IN  /\ ledger' = to_csv_read_csv(updated_df_after_edit)
                            /\ editing' = NoEdit
                            /\ \E io_ok \in BOOLEAN, git_ok \in BOOLEAN :
                                 last' = [action |-> "edit", form |-> form,
                                          messages |-> warnings, accepted |-> TRUE,
                                          html |-> HtmlOutcome(updated_df_after_edit,
                                                               io_ok),
                                          git |-> AlwaysPublish(git_ok)]
    /\ UNCHANGED <<restvars, ledgervars, people, client_expenses, summary_by_client_df>>

\* lines 1865-1868: Cancel
CancelEdit ==
    /\ pc = "running"
    /\ pc' = "idle"
    /\ editing # NoEdit
    /\ editing' = NoEdit
    /\ last' = [NoAction EXCEPT !.action = "cancel"]
    /\ UNCHANGED <<restvars, ledgervars, ledger, people, client_expenses, summary_by_client_df>>

\* lines 1926-1979: Add Client Expense
AddClientExpense ==
    /\ pc = "running"
    /\ pc' = "idle"
    /\ \E client \in client_options(people), g \in ExpenseForms :
          LET f == [selected_client |-> client, expense_amount |-> g.expense_amount,
                    expense_quantity |-> g.expense_quantity]
              warnings == ExpenseWarnings(f)
          IN  IF ~validation_passed(warnings)
              THEN /\ last' = [NoAction EXCEPT !.action = "expense",
                                               !.messages = warnings]
                   /\ UNCHANGED <<ledger, client_expenses>>
              ELSE /\ Len(client_expenses) < MaxExpenses
                   /\ client_expenses' = Append(client_expenses, new_expense_row(f))
                   /\ LET updated_payments_df == read_and_clean(ledger)
                      IN  /\ ledger' = to_csv_read_csv(updated_payments_df)
                          /\ \E io_ok \in BOOLEAN, git_ok \in BOOLEAN :
                               last' = [NoAction EXCEPT
                                          !.action = "expense", !.accepted = TRUE,
                                          !.html = HtmlOutcome(updated_payments_df, io_ok),
                                          !.git = AlwaysPublish(git_ok)]
    /\ UNCHANGED <<restvars, ledgervars, people, editing, summary_by_client_df>>

\* lines 2073-2091: the handler of Add Person for a name out of names; neither
\* generate_html_summary nor git_push is called
person_form(names) ==
    /\ \E name \in names, category \in Categories :
          LET warnings == PersonWarnings(people, name)
              form == [NoForm EXCEPT !.selected_person = name]
          IN  IF ~validation_passed(warnings)
              THEN /\ last' = [NoAction EXCEPT !.action = "add person", !.form = form,
                                               !.messages = warnings]
                   /\ UNCHANGED people
              ELSE /\ Len(people) < MaxPeople
                   /\ people' = Append(people, [name |-> Strip(name),
                                                category |-> category])
                   /\ last' = [NoAction EXCEPT !.action = "add person", !.form = form,
                                               !.accepted = TRUE]
    /\ UNCHANGED <<restvars, ledgervars, ledger, client_expenses, editing, summary_by_client_df>>

AddPerson ==
    /\ pc = "running"
    /\ pc' = "idle"
    /\ person_form(NameInputs)

\* lines 2099-2113: Delete Person; neither generate_html_summary nor git_push is
\* called
DeletePerson ==
    /\ pc = "running"
    /\ pc' = "idle"
    /\ \E k \in 1..Len(people) :
          LET to_del == NamesOf(people)[k]
              form == [NoForm EXCEPT !.selected_person = to_del]
          IN  IF HasTransactions(ledger, to_del)
              THEN /\ last' = [NoAction EXCEPT !.action = "delete person", !.form = form,
                                               !.messages = {"Cannot delete"}]
                   /\ UNCHANGED people
              ELSE /\ people' = delete_person(people, to_del)
                   /\ last' = [NoAction EXCEPT !.action = "delete person", !.form = form,
                                               !.accepted = TRUE]
    /\ UNCHANGED <<restvars, ledgervars, ledger, client_expenses, editing, summary_by_client_df>>

NextApp ==
    \/ StartRun
    \/ PageLoad
    \/ AddTransaction
    \/ SelectTransaction
    \/ SaveChanges
    \/ CancelEdit
    \/ AddClientExpense
    \/ AddPerson
    \/ DeletePerson

SpecApp == InitApp /\ [][NextApp]_vars

(***************************************************************************)
(* Manage People alone: script runs that add or delete a person.           *)
(***************************************************************************)
\* the names typed into Add Person: nothing, a name with blanks around it, the
\* same name in lower case, and a name pandas reads as a missing value
PeopleNameInputs == {S_empty, Padded(S_Bob), Lower(S_Bob), S_NA}

AddPersonNamed ==
    /\ pc = "running"
    /\ pc' = "idle"
    /\ person_form(PeopleNameInputs)

NextPeople == StartRun \/ AddPersonNamed \/ DeletePerson

SpecPeople == InitApp /\ [][NextPeople]_vars

(***************************************************************************)
(* The client expenses file over script runs: init_files at the start of   *)
(* every run, Add Client Expense in a run, the summary's read after both.  *)
(***************************************************************************)
MaxExpenseLines == 2

S_tea == <<"t","e","a">>

\* the lines of a file written before expense_quantity existed
LegacyExpenseLines ==
    {<<StrCell(S_empty), StrCell(S_date), StrCell(S_Bob), StrCell(S_General),
       NumCell(a), StrCell(d)>> : a \in {50, 500}, d \in {S_empty, S_tea}}

\* the files found on disk when the app starts: none (init_files creates the
\* file) or a legacy file
ExpenseFilesOnDisk ==
    {FreshExpenseFile}
    \cup {[header |-> LegacyExpenseColumns, lines |-> ls] :
            ls \in UNION {[1..n -> LegacyExpenseLines] : n \in 0..(MaxExpenseLines - 1)}}

\* the submitted forms that pass lines 1936-1941
ExpenseLineForms ==
    {[selected_client |-> S_Bob, expense_amount |-> NumCell(a),
      expense_quantity |-> NumCell(q), expense_description |-> d] :
        a \in {100, 250}, q \in {1, 3}, d \in {S_empty, S_tea, <<"2">>}}

InitExpenses ==
    /\ ledger = EmptyLedger
    /\ people = <<>>
    /\ editing = NoEdit
    /\ last = NoAction
    /\ balances = NoBalances
    /\ repo = NoRepo
    /\ expense_file \in ExpenseFilesOnDisk
    /\ view = NoView
    /\ tab1 = NoTab1
    /\ sessions = NoSessions
    /\ client_expenses = <<>>
    /\ summary_by_client_df = NoSummary
    /\ df = NoFrame
    /\ cleaned = NoFrame
    /\ recleaned = NoFrame
    /\ totals = NoTotals
    /\ parts = NoParts
    /\ pc = "on disk"

\* the start of a script run: init_files (lines 149-172); at the end of the run
\* the summary reads the file (lines 278-287, called at line 2322)
StartRunExpenses ==
    /\ pc \in {"on disk", "appended"}
    /\ expense_file' = init_files_expenses(expense_file)
    /\ client_expenses' = read_expenses(expense_file')
    /\ pc' = "ready"
    /\ UNCHANGED <<ledgervars, appvars, repo, view, sessions, summary_by_client_df, tab1>>

\* Add Client Expense, accepted (lines 1925-1985): the line is appended and the
\* summary reads the file (line 1972) before the rerun
AppendClientExpense ==
    /\ pc = "ready"
    /\ Len(expense_file.lines) < MaxExpenseLines
    /\ \E f \in ExpenseLineForms :
          /\ ExpenseWarnings(f) = {}
          /\ expense_file' =
                [expense_file EXCEPT
                    !.lines = Append(@, new_expense_line(expense_file.header, f))]
          /\ last' = [NoAction EXCEPT !.action = "expense", !.form = f,
                                      !.accepted = TRUE]
    /\ client_expenses' = read_expenses(expense_file')
    /\ pc' = "appended"
    /\ UNCHANGED <<ledgervars, ledger, people, editing, repo, view, sessions, summary_by_client_df, tab1>>

NextExpenses == StartRunExpenses \/ AppendClientExpense

SpecExpenses == InitExpenses /\ [][NextExpenses]_vars

(***************************************************************************)
(* View Transactions over a ledger file and the choices of the filters.    *)
(***************************************************************************)
MaxViewRows == 2

S_RX1 == <<"R","X","1">>
S_Rdot1 == <<"R",".","1">>

\* the rows of the ledgers viewed
ViewLedgerRows ==
    {[BaseRow EXCEPT !.reference_number = StrCell(S_R1),
                     !.transaction_status = StrCell(S_completed)],
     [BaseRow EXCEPT !.type = StrCell(S_i_paid), !.person = StrCell(S_Ann),
                     !.payment_method = StrCell(S_cheque), !.amount = StrCell(S_400),
                     !.transaction_status = StrCell(S_pending),
                     !.cheque_status = StrCell(S_bounced),
                     !.reference_number = StrCell(S_RX1)],
     [BaseRow EXCEPT !.payment_method = StrCell(S_cheque), !.amount = NumCell(1000),
                     !.transaction_status = StrCell(S_completed),
                     !.cheque_status = StrCell(S_processing),
                     !.reference_number = StrCell(S_Rdot1)]}

\* the people file of the ledgers viewed
ViewPeople ==
    <<[name |-> S_Bob, category |-> "investor"], [name |-> S_Ann, category |-> "client"]>>

\* lines 1611-1623: "All" and the names of the people file
person_options_view(ppl) == {S_All} \cup {NamesOf(ppl)[i] : i \in 1..Len(ppl)}

\* the choices of the five filters
ViewFilters ==
    [view_filter : {"All", "Received", "Paid"},
     method_filter : {"All", "Cash", "Cheque"},
     status_filter : {"All", "Pending", "Bounced"},
     view_person_filter : person_options_view(ViewPeople),
     view_reference_number_search : {S_empty, <<"r","1">>, S_Rdot1, <<"X">>}]

InitView ==
    /\ ledger \in {to_csv_read_csv(clean_payments_data(Frame(rows, {}))) :
                     rows \in UNION {[1..n -> ViewLedgerRows] : n \in 0..MaxViewRows}}
    /\ people = ViewPeople
    /\ editing = NoEdit
    /\ last = NoAction
    /\ balances = NoBalances
    /\ RestAtRest
    /\ client_expenses = <<>>
    /\ summary_by_client_df = NoSummary
    /\ df = NoFrame
    /\ cleaned = NoFrame
    /\ recleaned = NoFrame
    /\ totals = NoTotals
    /\ parts = NoParts
    /\ pc = "idle"

\* a script run showing tab2 with the filters as the widgets hold them
ViewTransactions ==
    /\ pc = "idle"
    /\ \E f \in ViewFilters : view' = view_transactions(ledger, f)
    /\ pc' = "viewed"
    /\ UNCHANGED <<ledgervars, appvars, client_expenses, summary_by_client_df,
                   repo, expense_file, sessions, tab1>>

NextView == ViewTransactions

SpecView == InitView /\ [][NextView]_vars

(***************************************************************************)
(* Two sessions, each with an accepted Add Transaction under way.          *)
(***************************************************************************)
\* the reference number typed in each session
RaceReference(s) == IF s = "s1" THEN S_R1 ELSE S_RX1

\* the forms submitted in session s
RaceForms(s) ==
    {[selected_transaction_type |-> "I Paid", payment_method |-> pm,
      selected_person |-> S_Bob, amount |-> NumCell(a),
      reference_number |-> RaceReference(s),
      cheque_status |-> S_received_given, status |-> S_completed] :
        pm \in {S_cash, S_cheque}, a \in {400, 1000}}

\* the ledger before the two forms are submitted
RaceLedgers ==
    {EmptyLedger,
     to_csv_read_csv(clean_payments_data(
         Frame(<<[BaseRow EXCEPT !.reference_number = StrCell(S_Rdot1)]>>, {})))}

InitRace ==
    /\ ledger \in RaceLedgers
    /\ sessions \in {[proc |-> [s \in Sessions |->
                                  [at |-> "submitted", form |-> fs[s],
                                   updated_df |-> NoFrame]],
                       last_writer |-> "none"] :
                         fs \in {g \in [Sessions -> UNION {RaceForms(s) : s \in Sessions}] :
                                   \A s \in Sessions : g[s] \in RaceForms(s)}}
    /\ people = <<>>
    /\ editing = NoEdit
    /\ last = NoAction
    /\ balances = NoBalances
    /\ repo = NoRepo
    /\ expense_file = FreshExpenseFile
    /\ view = NoView
    /\ tab1 = NoTab1
    /\ client_expenses = <<>>
    /\ summary_by_client_df = NoSummary
    /\ df = NoFrame
    /\ cleaned = NoFrame
    /\ recleaned = NoFrame
    /\ totals = NoTotals
    /\ parts = NoParts
    /\ pc = "idle"

\* lines 1518-1561: the form passes validation against the file as it is now, and
\* the row is appended
RaceAppend ==
    /\ \E s \in Sessions :
          /\ sessions.proc[s].at = "submitted"
          /\ validation_passed(AddWarnings(ledger, sessions.proc[s].form))
          /\ ledger' = AppendRow(ledger, new_row(sessions.proc[s].form))
          /\ sessions' = [sessions EXCEPT !.proc[s].at = "appended"]
    /\ UNCHANGED <<ledgervars, people, editing, last, pc, client_expenses,
                   summary_by_client_df, repo, expense_file, view, tab1>>

\* lines 1563-1567: the whole file is read and cleaned in memory
RaceRead ==
    /\ \E s \in Sessions :
          /\ sessions.proc[s].at = "appended"
          /\ sessions' = [sessions EXCEPT !.proc[s].at = "read",
                                          !.proc[s].updated_df = read_and_clean(ledger)]
    /\ UNCHANGED <<ledgervars, appvars, pc, client_expenses, summary_by_client_df,
                   repo, expense_file, view, tab1>>

\* line 1568: the whole file is rewritten from the frame in memory
RaceRewrite ==
    /\ \E s \in Sessions :
          /\ sessions.proc[s].at = "read"
          /\ ledger' = rewrite_file(ledger, sessions.proc[s].updated_df)
          /\ sessions' = [sessions EXCEPT !.proc[s].at = "done", !.last_writer = s]
    /\ UNCHANGED <<ledgervars, people, editing, last, pc, client_expenses,
                   summary_by_client_df, repo, expense_file, view, tab1>>

NextRace == RaceAppend \/ RaceRead \/ RaceRewrite

SpecRace == InitRace /\ [][NextRace]_vars

(***************************************************************************)
(* The repository over a sequence of handler writes and git_push calls.    *)
(***************************************************************************)
InitGit ==
    /\ AppAtRest
    /\ client_expenses = <<>>
    /\ summary_by_client_df = NoSummary
    /\ df = NoFrame
    /\ cleaned = NoFrame
    /\ recleaned = NoFrame
    /\ totals = NoTotals
    /\ parts = NoParts
    /\ pc = "idle"

\* a handler rewrites or appends to a data file (lines 1561, 1568, 1849, 1964, ...)
WriteDataFile ==
    /\ repo.worktree < MaxWrites
    /\ repo' = [repo EXCEPT !.worktree = repo.worktree + 1]
    /\ UNCHANGED <<ledgervars, appvars, pc, client_expenses, summary_by_client_df,
                   expense_file, view, sessions, tab1>>

\* one call of git_push (lines 1573, 1857, 1974)
GitPush ==
    /\ \E io \in {"ok", "no repo", "push fails"} : repo' = git_push(repo, io)
    /\ UNCHANGED <<ledgervars, appvars, pc, client_expenses, summary_by_client_df,
                   expense_file, view, sessions, tab1>>

NextGit == WriteDataFile \/ GitPush

SpecGit == InitGit /\ [][NextGit]_vars

(***************************************************************************)
(* Add Transaction with the session's direction and person: runs that      *)
(* switch the direction, submit the form or delete a person.               *)
(***************************************************************************)
\* offered_person with a slip: the session's person is offered whatever the options
offered_person_Kept(ppl, selected_transaction_type, selected_person) == selected_person

\* lines 1466-1472: the person the selectbox shows first, the session's person when
\* it is one of the options of this run and "Select..." otherwise
offered_person(ppl, selected_transaction_type, selected_person) ==
    IF selected_person \in person_options(ppl, selected_transaction_type)
    THEN selected_person ELSE S_Select

\* lines 1469-1470: the selection discarded last
dropped_person(offered, session) ==
    IF offered # session.selected_person THEN session.selected_person ELSE session.dropped

\* the forms submitted, but for the direction and the person
Tab1Forms ==
    {[payment_method |-> S_cash, amount |-> NumCell(400),
      reference_number |-> Padded(S_R1)],
     [payment_method |-> S_cheque, amount |-> NumCell(400),
      reference_number |-> S_pending],
     [payment_method |-> S_cheque, amount |-> NumCell(0),
      reference_number |-> S_R1]}

InitTab1 ==
    /\ ledger = EmptyLedger
    /\ people = ViewPeople
    /\ editing = NoEdit
    /\ last = NoAction
    /\ balances = NoBalances
    /\ RestAtRest
    /\ client_expenses = <<>>
    /\ summary_by_client_df = NoSummary
    /\ df = NoFrame
    /\ cleaned = NoFrame
    /\ recleaned = NoFrame
    /\ totals = NoTotals
    /\ parts = NoParts
    /\ pc = "idle"

\* lines 1450-1472: the other direction is chosen on the radio, which reruns the
\* script; the person of the session is kept only if the new options have it
SwitchTransactionType ==
    /\ pc = "running"
    /\ pc' = "idle"
    /\ \E ty \in TransactionTypes \ {tab1.selected_transaction_type} :
          LET offered == offered_person(people, ty, tab1.selected_person)
          IN  tab1' = [selected_transaction_type |-> ty, selected_person |-> offered,
                       dropped |-> dropped_person(offered, tab1)]
    /\ last' = [NoAction EXCEPT !.action = "switch type"]
    /\ UNCHANGED <<ledgervars, ledger, people, editing, client_expenses,
                   summary_by_client_df, repo, expense_file, view, sessions>>

\* lines 1450-1586: the form is submitted with the person the selectbox gives, the
\* one it showed first or one the user chose from its options (line 1502); after
\* an accepted form line 1423 resets the session's person, and the widget may
\* still give its last value in the next run
SubmitAddTransaction ==
    /\ pc = "running"
    /\ pc' = "idle"
    /\ LET ty == tab1.selected_transaction_type
           offered == offered_person(people, ty, tab1.selected_person)
       IN  \E g \in Tab1Forms, person \in {offered} \cup person_options(people, ty) :
             /\ submit_add_transaction(ty, person, g)
             /\ \E shown \in IF last'.accepted THEN {S_Select, person} ELSE {person} :
                   tab1' = [selected_transaction_type |-> ty, selected_person |-> shown,
                            dropped |-> dropped_person(offered, tab1)]
    /\ UNCHANGED <<ledgervars, people, client_expenses, summary_by_client_df,
                   repo, expense_file, view, sessions>>

NextTab1 == StartRun \/ SwitchTransactionType \/ SubmitAddTransaction \/ DeletePerson

SpecTab1 == InitTab1 /\ [][NextTab1]_vars

(***************************************************************************)
(* Edit Transaction over ledger files that hold rows the forms did not     *)
(* write: runs that select a row, save its changes or cancel.              *)
(***************************************************************************)
\* rows of a ledger file written before the app cleaned it
LegacyLedgerRows ==
    {[BaseRow EXCEPT !.reference_number = StrCell(S_R1),
                     !.transaction_status = StrCell(S_completed)],
     [BaseRow EXCEPT !.person = StrCell(Padded(S_nan)), !.date = StrCell(S_empty),
                     !.amount = StrCell(S_empty)],
     [BaseRow EXCEPT !.payment_method = StrCell(S_cheque), !.cheque_status = StrCell(S_x),
                     !.reference_number = StrCell(UpperFirst(S_pending))],
     [BaseRow EXCEPT !.type = StrCell(<<"I","_","P","A","I","D">>),
                     !.person = StrCell(S_Ann), !.amount = StrCell(S_400),
                     !.payment_method = StrCell(Padded(UpperFirst(S_cash))),
                     !.reference_number = StrCell(Padded(S_nan))]}

\* line 178: the ledger file after the first run of the script, whose init_files
\* cleaned and rewrote the file found (lines 122-134)
InitEdit ==
    /\ ledger \in {to_csv_read_csv(read_and_clean(Frame(rows, {}))) :
                     rows \in [{1} -> LegacyLedgerRows] \cup [{1, 2} -> LegacyLedgerRows]}
    /\ people = ViewPeople
    /\ editing = NoEdit
    /\ last = NoAction
    /\ balances = NoBalances
    /\ RestAtRest
    /\ client_expenses = <<>>
    /\ summary_by_client_df = NoSummary
    /\ df = NoFrame
    /\ cleaned = NoFrame
    /\ recleaned = NoFrame
    /\ totals = NoTotals
    /\ parts = NoParts
    /\ pc = "idle"

NextEdit == StartRun \/ SelectTransaction \/ SaveChanges \/ CancelEdit

SpecEdit == InitEdit /\ [][NextEdit]_vars

(***************************************************************************)
(* Properties of clean_payments_data and generate_html_summary.            *)
(* An output row is matched with its input row by its index label.         *)
(***************************************************************************)
WasCleaned == pc # "loaded"

\* the raw cell of column c in the i-th input row, as text ('' when the frame lacks c)
RawStr(i, c) == IF c \in df.cols THEN AsTypeStr(df.recs[i].row[c]) ELSE S_empty

\* the same, trimmed and lower-cased
RawWord(i, c) == Lower(Strip(RawStr(i, c)))

\* column c of the j-th output row, and the position of its input row
Out(j, c) == cleaned.recs[j].row[c]

Src(j) == cleaned.recs[j].idx + 1

OutRows == 1..Len(cleaned.recs)

StatusWords == valid_transaction_statuses_lower \cup valid_cheque_statuses_lower

\* a missing-value marker becomes ''
WithoutMarker(s) == IF s \in {S_nan, S_None} THEN S_empty ELSE s

\* C1: cleaning a cleaned ledger changes nothing: same rows, same value in every field.
C1_Idempotent ==
    (pc = "recleaned" /\ df.recs # <<>>) => recleaned = cleaned

\* C2 as stated: a reference_number that is any status word, of either kind and on
\* any row, comes out '' and is carried into its status field when that was not valid.
C2_AnyStatusWordRepaired ==
    WasCleaned =>
        \A j \in OutRows :
            LET ref == Lower(RawStr(Src(j), "reference_number"))
            IN  ref \in StatusWords =>
                    /\ Out(j, "reference_number") = StrCell(S_empty)
                    /\ (/\ ref \in valid_transaction_statuses_lower
                        /\ RawWord(Src(j), "transaction_status")
                              \notin valid_transaction_statuses_lower)
                          => Out(j, "transaction_status") = StrCell(ref)
                    /\ (/\ ref \in valid_cheque_statuses_lower
                        /\ RawWord(Src(j), "cheque_status") \notin valid_cheque_statuses_lower)
                          => Out(j, "cheque_status") = StrCell(ref)

\* C2 amended: a reference_number that is a transaction-status word (on any row), or a
\* cheque-status word on a cheque row, comes out '' and its lower-cased word is the
\* status field's value when that field was not valid.
C2_StatusInReferenceRepaired ==
    WasCleaned =>
        \A j \in OutRows :
            LET ref == Lower(RawStr(Src(j), "reference_number"))
                isCheque == RawWord(Src(j), "payment_method") = S_cheque
            IN  /\ ref \in valid_transaction_statuses_lower =>
                    /\ Out(j, "reference_number") = StrCell(S_empty)
                    /\ RawWord(Src(j), "transaction_status") \notin valid_transaction_statuses_lower
                          => Out(j, "transaction_status") = StrCell(ref)
                /\ (ref \in valid_cheque_statuses_lower /\ isCheque) =>
                    /\ Out(j, "reference_number") = StrCell(S_empty)
                    /\ RawWord(Src(j), "cheque_status") \notin valid_cheque_statuses_lower
                          => Out(j, "cheque_status") = StrCell(ref)

\* a kept row of each kind: a transaction-status word carried out of reference_number,
\* and a cheque-status word carried out of the reference_number of a cheque row
C2_Witness ==
    /\ WasCleaned
    /\ \E j \in OutRows :
          /\ Lower(RawStr(Src(j), "reference_number")) = S_pending
          /\ RawStr(Src(j), "transaction_status") = S_empty
          /\ Out(j, "transaction_status") = StrCell(S_pending)
          /\ Out(j, "reference_number") = StrCell(S_empty)
    /\ \E j \in OutRows :
          /\ Lower(RawStr(Src(j), "reference_number")) = S_bounced
          /\ RawWord(Src(j), "payment_method") = S_cheque
          /\ Out(j, "cheque_status") = StrCell(S_bounced)
          /\ Out(j, "reference_number") = StrCell(S_empty)

\* C3: when reference_number is a transaction-status word, a transaction_status that
\* is itself valid is kept (trimmed) and the word is used only when it was not.
C3_ExplicitStatusPreferred ==
    WasCleaned =>
        \A j \in OutRows :
            RawWord(Src(j), "reference_number") \in valid_transaction_statuses_lower =>
                IF RawWord(Src(j), "transaction_status") \in valid_transaction_statuses_lower
                THEN Out(j, "transaction_status")
                        = StrCell(Strip(RawStr(Src(j), "transaction_status")))
                ELSE Out(j, "transaction_status")
                        = StrCell(RawWord(Src(j), "reference_number"))

\* both fields hold a status word, and they differ
C3_Witness ==
    /\ WasCleaned
    /\ \E j \in OutRows :
          /\ RawWord(Src(j), "reference_number") = S_completed
          /\ RawWord(Src(j), "transaction_status") = S_pending
          /\ Lower(Out(j, "transaction_status").s) = S_pending

\* C4: a cash row comes out with an empty cheque_status, whatever it held.
C4_CashHasNoChequeStatus ==
    WasCleaned =>
        \A j \in OutRows :
            RawWord(Src(j), "payment_method") = S_cash =>
                Out(j, "cheque_status") = StrCell(S_empty)

\* a cash row that came in with a valid cheque status
C4_Witness ==
    /\ WasCleaned
    /\ \E j \in OutRows :
          /\ RawWord(Src(j), "payment_method") = S_cash
          /\ RawWord(Src(j), "cheque_status") = S_bounced
          /\ Out(j, "cheque_status") = StrCell(S_empty)

\* C5 as stated: a cheque row whose cheque_status is missing or invalid comes out
\* with cheque_status 'processing'.
C5_InvalidChequeStatusIsProcessing ==
    WasCleaned =>
        \A j \in OutRows :
            (/\ RawWord(Src(j), "payment_method") = S_cheque
             /\ RawWord(Src(j), "cheque_status") \notin valid_cheque_statuses_lower)
                => Out(j, "cheque_status") = StrCell(S_processing)

\* C5 amended: such a row comes out with 'processing' unless its reference_number is
\* a cheque-status word, which is then its cheque_status.
C5_InvalidChequeStatusDefaulted ==
    WasCleaned =>
        \A j \in OutRows :
            (/\ RawWord(Src(j), "payment_method") = S_cheque
             /\ RawWord(Src(j), "cheque_status") \notin valid_cheque_statuses_lower)
                => Out(j, "cheque_status") =
                      IF RawWord(Src(j), "reference_number") \in valid_cheque_statuses_lower
                      THEN StrCell(RawWord(Src(j), "reference_number"))
                      ELSE StrCell(S_processing)

\* a cheque row with an invalid cheque status and an ordinary reference number
C5_Witness ==
    /\ WasCleaned
    /\ \E j \in OutRows :
          /\ RawWord(Src(j), "payment_method") = S_cheque
          /\ RawStr(Src(j), "cheque_status") = S_x
          /\ RawStr(Src(j), "reference_number") = S_R1
          /\ Out(j, "cheque_status") = StrCell(S_processing)

\* C6 as stated: every output transaction_status is exactly 'completed' or 'pending',
\* and an input that is not one of the two becomes 'completed'.
C6_StatusIsExactlyValid ==
    WasCleaned =>
        \A j \in OutRows :
            /\ Out(j, "transaction_status").s \in valid_transaction_statuses_lower
            /\ RawStr(Src(j), "transaction_status") \notin valid_transaction_statuses_lower
                  => Out(j, "transaction_status") = StrCell(S_completed)

\* C6 amended: every output transaction_status is 'completed' or 'pending' up to letter
\* case; a valid input keeps its spelling (trimmed), any other input becomes
\* 'completed', or the status word its reference_number holds.
C6_StatusIsValidIgnoringCase ==
    WasCleaned =>
        \A j \in OutRows :
            /\ Lower(Out(j, "transaction_status").s) \in valid_transaction_statuses_lower
            /\ Out(j, "transaction_status") =
                  IF RawWord(Src(j), "transaction_status") \in valid_transaction_statuses_lower
                  THEN StrCell(Strip(RawStr(Src(j), "transaction_status")))
                  ELSE IF RawWord(Src(j), "reference_number") \in valid_transaction_statuses_lower
                       THEN StrCell(RawWord(Src(j), "reference_number"))
                       ELSE StrCell(S_completed)

\* an invalid status with an ordinary reference number
C6_Witness ==
    /\ WasCleaned
    /\ \E j \in OutRows :
          /\ RawStr(Src(j), "transaction_status") = S_x
          /\ RawStr(Src(j), "reference_number") = S_R1
          /\ Out(j, "transaction_status") = StrCell(S_completed)

\* the fields a frame may lack whose value is free text
FreeTextColumns == {"person", "status", "description", "reference_number"}

\* C7 as stated: a field the input lacks is in every output row with a value valid for
\* it: an enumeration member for transaction_status, payment_method and type, ''
\* for the cheque_status of a non-cheque row, 0 for amount, '' for free text.
C7_MissingFieldGetsValidValue ==
    (WasCleaned /\ df.recs # <<>>) =>
        /\ cols_to_check \subseteq cleaned.cols
        /\ \A j \in OutRows : \A c \in cols_to_check \ df.cols :
              CASE c = "transaction_status" ->
                      Out(j, c).s \in valid_transaction_statuses_lower
                [] c = "payment_method" -> Out(j, c).s \in {S_cash, S_cheque}
                [] c = "type" -> Out(j, c).s \in {S_paid_to_me, S_i_paid}
                [] c = "cheque_status" ->
                      RawWord(Src(j), "payment_method") # S_cheque
                          => Out(j, c) = StrCell(S_empty)
                [] c = "amount" -> Out(j, c) = NumCell(0)
                [] c \in FreeTextColumns -> Out(j, c) = StrCell(S_empty)
                [] OTHER -> TRUE

\* C7 amended: a field the input lacks is in every output row: transaction_status is
\* 'completed' or 'pending', cheque_status is '' on a non-cheque row and a valid
\* cheque status on a cheque row, amount is 0, date is the missing date, and every
\* other field, payment_method and type included, is ''.
C7_MissingFieldGetsDefault ==
    (WasCleaned /\ df.recs # <<>>) =>
        /\ cols_to_check \subseteq cleaned.cols
        /\ \A j \in OutRows :
              /\ DOMAIN cleaned.recs[j].row = cols_to_check
              /\ \A c \in cols_to_check \ df.cols :
                    CASE c = "transaction_status" ->
                            Out(j, c).s \in valid_transaction_statuses_lower
                      [] c = "cheque_status" ->
                            IF RawWord(Src(j), "payment_method") = S_cheque
                            THEN Out(j, c).s \in valid_cheque_statuses_lower
                            ELSE Out(j, c) = StrCell(S_empty)
                      [] c = "amount" -> Out(j, c) = NumCell(0)
                      [] c = "date" -> Out(j, c) = NatCell
                      [] OTHER -> Out(j, c) = StrCell(S_empty)

\* a frame without payment_method, and one of its rows kept
C7_Witness ==
    /\ WasCleaned
    /\ "payment_method" \notin df.cols
    /\ \E j \in OutRows : Out(j, "payment_method") = StrCell(S_empty)

\* the blank-row test on the i-th input row, its fields coerced as lines 77-80 do
IsBlankInput(i) ==
    /\ ToDatetime(Strip(WithoutMarker(RawStr(i, "date")))) = NatCell
    /\ Strip(WithoutMarker(RawStr(i, "person"))) = S_empty
    /\ ToNumeric(Strip(WithoutMarker(RawStr(i, "amount")))).n = 0

\* C8: exactly the rows with no date, no person and amount 0 are removed, and the
\* rows kept stay in their order.
C8_OnlyBlankRowsRemoved ==
    WasCleaned =>
        LET kept == {i \in 1..Len(df.recs) : ~IsBlankInput(i)}
        IN  /\ Len(cleaned.recs) = Cardinality(kept)
            /\ \A j \in OutRows : Src(j) \in kept
            /\ \A j, k \in OutRows : j < k => Src(j) < Src(k)

\* a blank first row removed and a second row without date, with a person, kept
C8_Witness ==
    /\ WasCleaned
    /\ Len(df.recs) = 2
    /\ IsBlankInput(1)
    /\ RawStr(2, "date") = S_empty /\ RawStr(2, "person") = S_Bob
    /\ Len(cleaned.recs) = 1 /\ Src(1) = 2

\* the text fields the status repair never writes
PlainTextColumns == {"person", "type", "status", "description", "payment_method"}

\* C9: a text field comes out trimmed with the markers 'nan' and 'None' replaced by
\* '', whitespace around a marker included: no output text is 'nan' or 'None'.
C9_TextTrimmedAndMarkersRemoved ==
    WasCleaned =>
        \A j \in OutRows :
            /\ \A c \in cols_to_check \ {"amount", "date"} :
                  Out(j, c).s \notin {S_nan, S_None}
            /\ \A c \in PlainTextColumns :
                  Out(j, c) = StrCell(WithoutMarker(Strip(RawStr(Src(j), c))))

\* the sum of f over the set S of its arguments
RECURSIVE SetSum(_, _)
SetSum(S, f) ==
    IF S = {} THEN 0
    ELSE LET x == CHOOSE x \in S : TRUE IN f[x] + SetSum(S \ {x}, f)

\* the amounts of the cleaned rows of direction ty whose status is one in statuses
AmountOfRows(ty, statuses) ==
    SetSum({j \in OutRows : /\ Lower(Out(j, "type").s) = ty
                            /\ Lower(Out(j, "transaction_status").s) \in statuses},
           [j \in OutRows |-> Out(j, "amount").n])

\* C10: total_received and total_paid are the sums of the amounts of the paid_to_me
\* and of the i_paid rows, pending_received and pending_paid those sums over the
\* pending rows, type and status compared without regard to case.
C10_TotalsByDirectionAndStatus ==
    (pc = "summarised" /\ totals.ok) =>
        /\ totals.total_received = AmountOfRows(S_paid_to_me, valid_transaction_statuses_lower)
        /\ totals.total_paid = AmountOfRows(S_i_paid, valid_transaction_statuses_lower)
        /\ totals.pending_received = AmountOfRows(S_paid_to_me, {S_pending})
        /\ totals.pending_paid = AmountOfRows(S_i_paid, {S_pending})

\* a summary with pending money both ways, a status and a type not in lower case,
\* and a completed row beside the pending ones
C10_Witness ==
    /\ pc = "summarised" /\ totals.ok
    /\ totals.pending_received > 0
    /\ totals.pending_paid > 0
    /\ \E j \in OutRows : Out(j, "transaction_status").s = UpperFirst(S_pending)
    /\ \E j \in OutRows : Out(j, "type").s # Lower(Out(j, "type").s)

\* the frame has the columns the totals read, as every ledger file has
HasTotalsColumns == NeededForTotals \subseteq cleaned.cols

\* C11: the net balance is the total received minus the total paid, that is the sum
\* of the paid_to_me amounts minus the sum of the i_paid amounts.
C11_NetBalanceIsReceivedMinusPaid ==
    (pc = "summarised" /\ totals.ok) =>
        /\ totals.net_balance = totals.total_received - totals.total_paid
        /\ totals.net_balance =
              AmountOfRows(S_paid_to_me, valid_transaction_statuses_lower)
              - AmountOfRows(S_i_paid, valid_transaction_statuses_lower)

\* one incoming row of 1000 and one outgoing row of 400 give 600
C11_Witness ==
    /\ pc = "summarised" /\ totals.ok
    /\ Len(cleaned.recs) = 2
    /\ totals.total_received = 1000
    /\ totals.total_paid = 400
    /\ totals.net_balance = 600

TotalNames ==
    {"total_received", "pending_received", "total_paid", "pending_paid",
     "cash_received", "cheque_received", "cash_paid", "cheque_paid", "net_balance"}

\* C12: summarising a ledger with its columns and no rows ends without an error and
\* gives 0 for every total.
C12_EmptyLedgerAllZero ==
    (pc = "summarised" /\ HasTotalsColumns /\ cleaned.recs = <<>>) =>
        /\ totals.ok
        /\ \A m \in TotalNames : totals[m] = 0

\* C13: for every split of the ledger into two disjoint parts, each total of the
\* first part plus the same total of the second part is that total of the whole.
C13_Additive ==
    (pc = "split" /\ HasTotalsColumns) =>
        /\ totals.ok /\ parts.A.ok /\ parts.B.ok
        /\ \A m \in TotalNames : parts.A[m] + parts.B[m] = totals[m]

\* the amounts of the cleaned rows of direction ty and payment method pm
CellAmount(ty, pm) ==
    SetSum({j \in OutRows : /\ Lower(Out(j, "type").s) = ty
                            /\ Lower(Out(j, "payment_method").s) = pm},
           [j \in OutRows |-> Out(j, "amount").n])

\* C14: the summary of a ledger with rows reports all four cells of the direction by
\* payment method table, each the sum of the amounts of its rows, which is 0 for a
\* cell with no rows, whether its direction or its method is absent altogether.
C14_AllFourCellsReported ==
    (pc = "summarised" /\ HasTotalsColumns /\ cleaned.recs # <<>>) =>
        /\ totals.ok
        /\ totals.cash_received = CellAmount(S_paid_to_me, S_cash)
        /\ totals.cheque_received = CellAmount(S_paid_to_me, S_cheque)
        /\ totals.cash_paid = CellAmount(S_i_paid, S_cash)
        /\ totals.cheque_paid = CellAmount(S_i_paid, S_cheque)

\* money received in cash, no cheque row and no i_paid row: the grouped table lacks
\* the cheque column and the i_paid row, and the three other cells are 0
C14_Witness ==
    /\ pc = "summarised" /\ totals.ok
    /\ totals.cash_received > 0
    /\ \A j \in OutRows : /\ Lower(Out(j, "payment_method").s) # S_cheque
                          /\ Lower(Out(j, "type").s) # S_i_paid
    /\ totals.cheque_received = 0 /\ totals.cash_paid = 0 /\ totals.cheque_paid = 0

\* the names the per-client summary has to cover: the persons of the i_paid rows
\* and the expense_persons of the expenses
ClientNames ==
    {Out(j, "person").s : j \in {k \in OutRows : Lower(Out(k, "type").s) = S_i_paid}}
        \cup {AsTypeStr(client_expenses[i].expense_person) :
                 i \in 1..Len(client_expenses)}

\* the i_paid amounts of a name
PaidTo(name) ==
    SetSum({j \in OutRows : /\ Lower(Out(j, "type").s) = S_i_paid
                            /\ Out(j, "person").s = name},
           [j \in OutRows |-> Out(j, "amount").n])

\* unit price times quantity over the expenses of a name
SpentBy(name) ==
    SetSum({i \in 1..Len(client_expenses) :
               AsTypeStr(client_expenses[i].expense_person) = name},
           [i \in 1..Len(client_expenses) |->
               ExpenseAmount(client_expenses[i]) * ExpenseQuantity(client_expenses[i])])

\* C15: the per-client summary has one row for every name that is the person of an
\* i_paid transaction or the expense_person of an expense; its total_spent_by_client
\* is the sum of expense_amount x expense_quantity over the name's expenses, its
\* total_paid_to_client the sum of the name's i_paid amounts (0 when there are
\* none), and its remaining_balance their difference, which may be negative.
C15_PerClientSummary ==
    (pc = "clients" /\ summary_by_client_df.ok) =>
        /\ DOMAIN summary_by_client_df.rows = ClientNames
        /\ \A name \in ClientNames :
              LET r == summary_by_client_df.rows[name]
              IN  /\ r.total_spent_by_client = SpentBy(name)
                  /\ r.total_paid_to_client = PaidTo(name)
                  /\ r.remaining_balance = PaidTo(name) - SpentBy(name)

\* a summary with a client who spent more than was paid, one with payments and no
\* expense, and one with expenses and no payment
C15_Witness ==
    /\ pc = "clients" /\ summary_by_client_df.ok
    /\ \E name \in ClientNames :
          LET r == summary_by_client_df.rows[name]
          IN  /\ r.total_paid_to_client > 0
              /\ r.total_spent_by_client > r.total_paid_to_client
              /\ r.remaining_balance < 0
    /\ \E name \in ClientNames :
          /\ summary_by_client_df.rows[name].total_paid_to_client = 0
          /\ summary_by_client_df.rows[name].total_spent_by_client > 0

\* the handler of a submitted form has just run
Handled(action) == pc = "idle" /\ last.action = action

\* the reference numbers of the ledger file, row by row
StoredReference(i) == AsTypeStr(ledger.recs[i].row.reference_number)

\* C16: an Add Transaction submitted with no person selected, or with an amount that
\* is not above 0, or with a reference number that a row of the ledger already has,
\* leaves the ledger file as it was, and its handler calls neither
\* generate_html_summary nor git_push.
C16_RejectedAddWritesNothing ==
    [][(/\ pc = "running"
        /\ last'.action = "add"
        /\ \/ last'.form.selected_person = S_Select
           \/ last'.form.amount.n <= 0
           \/ IsDuplicateReference(read_ledger(ledger),
                                   Strip(last'.form.reference_number)))
       => /\ ledger' = ledger
          /\ ~last'.accepted
          /\ last'.html = "not called"
          /\ last'.git = <<>>]_vars

\* an Add Transaction with a person and a positive amount was refused because its
\* reference number, once trimmed, is that of a row of the ledger
C16_Witness ==
    /\ Handled("add")
    /\ ~last.accepted
    /\ last.form.selected_person # S_Select
    /\ last.form.amount.n > 0
    /\ last.messages = {"Duplicate Reference Number found"}
    /\ \E i \in 1..Len(ledger.recs) :
          StoredReference(i) = Strip(last.form.reference_number)
    /\ last.html = "not called" /\ last.git = <<>>

\* a submitted add or edit form that is complete but for its reference number
BlankReferenceOnly(action) ==
    /\ Handled(action)
    /\ last.form.selected_person # S_Select
    /\ last.form.amount.k = "num" /\ last.form.amount.n > 0
    /\ Strip(last.form.reference_number) = S_empty

\* C17 as stated: an Add Transaction with a person, a positive amount and an empty
\* reference number is accepted when the payment method is cash and rejected when
\* it is cheque.
C17_ReferenceRequiredForChequeOnly ==
    BlankReferenceOnly("add") =>
        (last.accepted <=> last.form.payment_method = S_cash)

\* C17: a transaction form (add or edit) with an empty or all-blank reference number
\* is rejected whatever the payment method; only the warning differs.
C17_ReferenceRequiredForEveryMethod ==
    \A action \in {"add", "edit"} :
        BlankReferenceOnly(action) =>
            /\ ~last.accepted
            /\ last.html = "not called" /\ last.git = <<>>
            /\ (IF last.form.payment_method = S_cheque
                THEN "Reference Number is REQUIRED for cheque transactions."
                ELSE "Reference Number is required.") \in last.messages

\* a cash Add Transaction, complete but for the reference number, was refused
C17_Witness ==
    /\ BlankReferenceOnly("add")
    /\ last.form.payment_method = S_cash
    /\ ~last.accepted
    /\ "Reference Number is required." \in last.messages

\* C18: no two rows of the ledger file hold the same non-empty reference number,
\* whatever Add Transaction and Save Changes actions were run; and an edit that
\* leaves its row's own reference number in place is not refused as a duplicate.
C18_ReferenceNumbersUnique ==
    /\ \A i, j \in 1..Len(ledger.recs) :
          (i # j /\ StoredReference(i) # S_empty) =>
              StoredReference(i) # StoredReference(j)
    /\ (/\ Handled("edit")
        /\ last.form.amount.n > 0
        /\ last.form.loaded_reference_number # S_empty
        /\ Strip(last.form.reference_number) = last.form.loaded_reference_number)
       => last.accepted

\* a ledger of two rows after an accepted edit that kept its row's reference number
C18_Witness ==
    /\ Handled("edit")
    /\ last.accepted
    /\ last.form.loaded_reference_number # S_empty
    /\ Strip(last.form.reference_number) = last.form.loaded_reference_number
    /\ Len(ledger.recs) = 2
    /\ \E i \in 1..2 : StoredReference(i) = last.form.loaded_reference_number

\* the last row of the ledger file is the row of the accepted Add Transaction form
NewRowPresent ==
    /\ ledger.recs # <<>>
    /\ LET row == ledger.recs[Len(ledger.recs)].row
       IN  /\ AsTypeStr(row.person) = last.form.selected_person
           /\ row.amount = last.form.amount
           /\ AsTypeStr(row.payment_method) = last.form.payment_method

\* C19: when generate_html_summary or git_push fails in an accepted Add Transaction,
\* the new row is in the ledger file all the same, and the handler has called
\* git_push at most once (not at all when the summary failed).
C19_PublishFailureKeepsRow ==
    (/\ Handled("add")
     /\ last.accepted
     /\ \/ last.html = "failed"
        \/ \E i \in 1..Len(last.git) : ~last.git[i])
    => /\ NewRowPresent
       /\ Len(last.git) <= 1
       /\ last.html = "failed" => last.git = <<>>

\* an accepted Add Transaction whose push failed: the row is there
C19_Witness ==
    /\ Handled("add")
    /\ last.accepted
    /\ last.html = "generated"
    /\ last.git = <<FALSE>>
    /\ NewRowPresent

Mutations == {"add", "edit", "expense", "add person", "delete person"}

\* C20: every action that changed a data file (Add Transaction, Save Changes, Add
\* Client Expense, Add Person, Delete Person) has called git_push.
C20_PushFollowsEveryMutation ==
    (pc = "idle" /\ last.action \in Mutations /\ last.accepted) => last.git # <<>>

\* the amounts of the cleaned rows of direction ty whose method is neither cash
\* nor cheque
OtherMethodAmount(ty) ==
    SetSum({j \in OutRows : /\ Lower(Out(j, "type").s) = ty
                            /\ Lower(Out(j, "payment_method").s) \notin {S_cash, S_cheque}},
           [j \in OutRows |-> Out(j, "amount").n])

\* C27 as stated: for every normalised ledger the cash and the cheque figure of a
\* direction add up to the total of that direction, in the summary and in the sidebar.
C27_MethodBreakdownAddsUp ==
    pc = "summarised" =>
        /\ totals.ok =>
              /\ totals.cash_received + totals.cheque_received = totals.total_received
              /\ totals.cash_paid + totals.cheque_paid = totals.total_paid
        /\ balances.shown =>
              /\ balances.cash_rec + balances.cheque_rec = balances.rec
              /\ balances.cash_paid + balances.cheque_paid = balances.paid

\* C27: the total of a direction is its cash figure plus its cheque figure plus the
\* amounts of its rows whose payment method is neither cash nor cheque (the
\* normaliser leaves such a method as it is), in the summary and in the sidebar;
\* the two figures add up to the total when every row's method is cash or cheque.
C27_BreakdownAddsUpWithOtherMethods ==
    pc = "summarised" =>
        /\ totals.ok =>
              /\ totals.total_received = totals.cash_received + totals.cheque_received
                                          + OtherMethodAmount(S_paid_to_me)
              /\ totals.total_paid = totals.cash_paid + totals.cheque_paid
                                      + OtherMethodAmount(S_i_paid)
        /\ balances.shown =>
              /\ balances.rec = balances.cash_rec + balances.cheque_rec
                                 + OtherMethodAmount(S_paid_to_me)
              /\ balances.paid = balances.cash_paid + balances.cheque_paid
                                  + OtherMethodAmount(S_i_paid)
        /\ (\A j \in OutRows : Lower(Out(j, "payment_method").s) \in {S_cash, S_cheque}) =>
              /\ totals.cash_received + totals.cheque_received = totals.total_received
              /\ totals.cash_paid + totals.cheque_paid = totals.total_paid
              /\ balances.cash_rec + balances.cheque_rec = balances.rec
              /\ balances.cash_paid + balances.cheque_paid = balances.paid

\* a summarised ledger whose one incoming row has no payment method
C27_Witness ==
    /\ pc = "summarised" /\ totals.ok /\ balances.shown
    /\ totals.total_received = 1500 /\ balances.rec = 1500
    /\ totals.cash_received = 0 /\ totals.cheque_received = 0
    /\ OtherMethodAmount(S_paid_to_me) = 1500

\* C28: whenever a git_push call returns True, every commit made locally by this or
\* an earlier call has been pushed to origin (the remote branch is at the local head).
C28_TrueMeansEverythingPushed ==
    repo.result = "True" => repo.origin = repo.head

\* the expense last added through the form, as the summary read it back
AddedExpense == client_expenses[Len(client_expenses)]

\* C29: an expense added through Add Client Expense with unit amount a, quantity q
\* and description d is read back by the summary with expense_amount = a,
\* expense_quantity = q and expense_description = d, whether init_files created the
\* file or added the expense_quantity column to a legacy file.
C29_ExpenseReadBackAsEntered ==
    (pc \in {"appended", "ready"} /\ last.action = "expense") =>
        /\ ExpenseAmount(AddedExpense) = last.form.expense_amount.n
        /\ ExpenseQuantity(AddedExpense) = last.form.expense_quantity.n
        /\ AsTypeStr(AddedExpense.expense_description) = last.form.expense_description

\* the same for the files whose header init_files wrote itself
C29_FreshFileReadBackAsEntered ==
    (pc \in {"appended", "ready"} /\ last.action = "expense"
        /\ expense_file.header = ExpenseColumns) =>
        /\ ExpenseAmount(AddedExpense) = last.form.expense_amount.n
        /\ ExpenseQuantity(AddedExpense) = last.form.expense_quantity.n
        /\ AsTypeStr(AddedExpense.expense_description) = last.form.expense_description

\* the text pat occurs in text as a substring
IsSubstring(pat, text) ==
    \E o \in 0..(Len(text) - Len(pat)) : SubSeq(text, o + 1, o + Len(pat)) = pat

\* the normalised row passes the filters as C25 describes them
MatchesFilters(row, f) ==
    /\ f.view_filter # "All" => TypeLabel(row.type.s) = f.view_filter
    /\ f.method_filter # "All" => Lower(row.payment_method.s) = FilterWord(f.method_filter)
    /\ f.status_filter # "All" =>
          \/ Lower(row.transaction_status.s) = FilterWord(f.status_filter)
          \/ Lower(AsTypeStr(row.cheque_status)) = FilterWord(f.status_filter)
    /\ f.view_person_filter # S_All => row.person.s = f.view_person_filter
    /\ f.view_reference_number_search # S_empty =>
          IsSubstring(Lower(f.view_reference_number_search), Lower(row.reference_number.s))

\* C25: the rows displayed are exactly the normalised ledger rows that satisfy every
\* active filter, the reference search keeping a row iff the search text occurs in
\* its reference number as a substring, case ignored; Total Displayed Amount is the
\* sum of the amounts of those rows.
C25_DisplayedRowsAreTheMatches ==
    LET d == read_and_clean(ledger)
        matches == {i \in 1..Len(d.recs) : MatchesFilters(d.recs[i].row, view.filters)}
    IN  pc = "viewed" =>
            /\ view.shown = {d.recs[i].idx : i \in matches}
            /\ view.shown # {} =>
                  view.total = SetSum(matches, [i \in 1..Len(d.recs) |-> d.recs[i].row.amount.n])

\* the same for the searches without a regular-expression metacharacter
C25_PlainSearchDisplaysTheMatches ==
    LET d == read_and_clean(ledger)
        matches == {i \in 1..Len(d.recs) : MatchesFilters(d.recs[i].row, view.filters)}
    IN  (pc = "viewed"
         /\ \A k \in 1..Len(view.filters.view_reference_number_search) :
                view.filters.view_reference_number_search[k] # ".") =>
            /\ view.shown = {d.recs[i].idx : i \in matches}
            /\ view.shown # {} =>
                  view.total = SetSum(matches, [i \in 1..Len(d.recs) |-> d.recs[i].row.amount.n])

AllDone == \A s \in Sessions : sessions.proc[s].at = "done"

\* the row session s appended is in the ledger file
RowStored(s) ==
    \E i \in 1..Len(ledger.recs) :
        ledger.recs[i].row.reference_number.s = RaceReference(s)

\* the row session s appended was in the file when session w read it
RowSeenBy(s, w) ==
    \E i \in 1..Len(sessions.proc[w].updated_df.recs) :
        sessions.proc[w].updated_df.recs[i].row.reference_number.s = RaceReference(s)

\* C22: with no locking the last whole-file rewrite wins: when two sessions have
\* each finished an accepted Add Transaction, the ledger file is the frame the last
\* rewriting session had read, so a session's row is stored only if it was in the
\* file at that read, and at least one of the two rows is stored; there is an
\* interleaving that loses a row (the witness).
C22_LastRewriteWins ==
    AllDone =>
        LET w == sessions.last_writer
        IN  /\ ledger = to_csv_read_csv(sessions.proc[w].updated_df)
            /\ \A s \in Sessions : RowStored(s) <=> RowSeenBy(s, w)
            /\ \E s \in Sessions : RowStored(s)

\* both Adds were accepted and are finished, and one of the two rows is missing
C22_Witness ==
    /\ AllDone
    /\ \E s \in Sessions : ~RowStored(s)
    /\ \E s \in Sessions : RowStored(s)

\* no two lines of the people file hold the same name
NamesAreDistinct(ppl) ==
    \A i, j \in 1..Len(ppl) : i # j => NamesOf(ppl)[i] # NamesOf(ppl)[j]

\* C21: person names are a unique key compared case-sensitively: Add Person rejects
\* a non-empty name exactly when a person of the identical name exists (so a name
\* differing only in letter case is accepted), and after any sequence of Add Person
\* actions no two persons have an identical name.
C21_NamesUniqueCaseSensitive ==
    [][/\ NamesAreDistinct(people')
       /\ (pc = "running" /\ last'.action = "add person"
            /\ Strip(last'.form.selected_person) # S_empty) =>
              (~last'.accepted <=>
                 \E i \in 1..Len(people) :
                    NamesOf(people)[i] = Strip(last'.form.selected_person))]_vars

\* the part of C21 that holds whatever the letter case: no two persons have the same
\* name
C21_NoIdenticalNames == NamesAreDistinct(people)

\* Add Person compares without regard to letter case: a name is rejected exactly
\* when a person of the same lower-cased name exists
C21_RejectedIffSameNameIgnoringCase ==
    [][(pc = "running" /\ last'.action = "add person"
        /\ Strip(last'.form.selected_person) # S_empty) =>
          (~last'.accepted <=>
             \E i \in 1..Len(people) :
                Lower(NamesOf(people)[i]) = Lower(Strip(last'.form.selected_person)))]_vars

\* the names of the people file
PeopleNames == {NamesOf(people)[i] : i \in 1..Len(people)}

\* C30: every name referenced by a stored record, the person of a ledger row or the
\* client of a client expense, is a name of the people file: Delete Person is
\* refused for a person who has a transaction or a client expense.
C30_ReferencedNamesExist ==
    pc = "idle" =>
        /\ \A i \in 1..Len(ledger.recs) : ledger.recs[i].row.person.s \in PeopleNames
        /\ \A i \in 1..Len(client_expenses) :
              client_expenses[i].expense_person.s \in PeopleNames

\* the part of C30 about the ledger alone
C30_LedgerPersonsExist ==
    pc = "idle" =>
        \A i \in 1..Len(ledger.recs) : ledger.recs[i].row.person.s \in PeopleNames


\* the row an accepted Add Transaction stored, the last row of the ledger file
StoredNewRow == ledger.recs[Len(ledger.recs)].row

\* C26: after an accepted Add Transaction the stored row carries the reference
\* number the user entered, trimmed; in particular a stored cheque row created
\* through the form has a reference number that is not empty.
C26_StoredReferenceIsEntered ==
    (Handled("add") /\ last.accepted) =>
        /\ AsTypeStr(StoredNewRow.reference_number) = Strip(last.form.reference_number)
        /\ last.form.payment_method = S_cheque =>
              AsTypeStr(StoredNewRow.reference_number) # S_empty

\* the same for the reference numbers that are not a status word
C26_PlainReferenceIsStored ==
    (Handled("add") /\ last.accepted
        /\ Lower(Strip(last.form.reference_number)) \notin StatusWords) =>
        /\ AsTypeStr(StoredNewRow.reference_number) = Strip(last.form.reference_number)
        /\ AsTypeStr(StoredNewRow.reference_number) # S_empty

\* an accepted cheque whose reference number was a status word is stored without it
C26_ChequeStoredWithoutReference ==
    /\ Handled("add") /\ last.accepted
    /\ last.form.payment_method = S_cheque
    /\ Strip(last.form.reference_number) = S_pending
    /\ AsTypeStr(StoredNewRow.reference_number) = S_empty
    /\ AsTypeStr(StoredNewRow.payment_method) = S_cheque

\* the people file has a line with this name in this category
Recorded(ppl, name, category) ==
    \E k \in 1..Len(ppl) : NamesOf(ppl)[k] = name /\ ppl[k].category = category

\* C23: the person of a row stored by an accepted Add Transaction is recorded in the
\* people file, at that moment, in the category of the row's direction: investor for
\* paid_to_me, client for i_paid.  A person selected before the direction was
\* switched, of the other category, is not the person of the stored row.
C23_PersonHasCategoryOfDirection ==
    [][(pc = "running" /\ last'.action = "add" /\ last'.accepted) =>
          LET row == ledger'.recs[Len(ledger'.recs)].row
          IN  /\ Len(ledger'.recs) = Len(ledger.recs) + 1
              /\ AsTypeStr(row.type) \in {S_paid_to_me, S_i_paid}
              /\ Recorded(people, AsTypeStr(row.person),
                          IF AsTypeStr(row.type) = S_paid_to_me
                          THEN "investor" ELSE "client")]_vars

\* an investor was selected, the direction was switched to "I Paid", and the form
\* accepted after that stored a row paid to a client
C23_Witness ==
    /\ Handled("add") /\ last.accepted
    /\ tab1.dropped = S_Bob
    /\ Recorded(people, S_Bob, "investor")
    /\ AsTypeStr(StoredNewRow.type) = S_i_paid
    /\ AsTypeStr(StoredNewRow.person) = S_Ann

\* the positions of the ledger file that hold the row selected for editing
EditedPositions == {i \in 1..Len(ledger.recs) : ledger.recs[i].idx = editing.idx}

====
